---------------------------- MODULE Spec2Model ----------------------------
(***************************************************************************)
(* Model of the Eddy / Graphol-ed diagram scene (DiagramScene): the id and *)
(* label indices, the undo stack, the pointer-driven interaction state     *)
(* machine (node insertion, edge insertion, node move) and the palette.    *)
(***************************************************************************)
EXTENDS Integers, Sequences, FiniteSets, Bags, TLC

(***************************************************************************)
(* Bounds of the model.                                                    *)
(***************************************************************************)
\* number of node objects ever constructed
MaxNodes == 2
\* number of edge objects ever constructed
MaxEdges == 1
\* number of commands ever pushed on the undo stack by the pointer
MaxPush == 2
\* number of commands ever pushed on the undo stack, editing commands included
MaxEdits == 3
\* number of commands ever pushed when the undo limit is exercised
MaxStackEdits == 52
\* nodes are kept inside the square 0..MaxCoord x 0..MaxCoord
MaxCoord == 40
\* a point hits a node when it is within HitRadius of its centre on both axes
HitRadius == 10
\* number of calls of an axiom composer
MaxCalls == 1
\* number of commands ever pushed by the compose-axiom actions
MaxComposes == 3
\* number of commands ever pushed by the fields of the node information panel
MaxRenames == 3
\* number of commands ever pushed by the checkboxes of the node information panel
MaxToggles == 3
\* number of items that lie on the probe rectangles of a composer
MaxObstacles == 3
\* number of items on one probe rectangle
MaxOcc == 2

(***************************************************************************)
(* Program constants.                                                      *)
(***************************************************************************)
GridSize == 20
UndoLimit == 50

\* Python's None for object references
None == 0
\* Python's None for points
NoPoint == <<>>

\* scene positions at which pointer events are delivered
EventPoints == {<<0, 0>>, <<30, 10>>}

\* item classes offered by the palette
PaletteNodes == {"RoleNode", "ValueDomainNode"}
PaletteEdges == {"InclusionEdge"}
PaletteItems == PaletteNodes \cup PaletteEdges

\* Qt.LeftButton, the primary button
LeftButton == "Left"

(***************************************************************************)
(* Dictionaries and DistinctList.                                          *)
(***************************************************************************)
EmptyDict == <<>>

Put(d, k, v) == [x \in (DOMAIN d) \cup {k} |-> IF x = k THEN v ELSE d[x]]

Pop(d, k) == [x \in (DOMAIN d) \ {k} |-> d[x]]

Values(d) == {d[k] : k \in DOMAIN d}

InSeq(s, x) == \E i \in 1..Len(s) : s[i] = x

\* DistinctList.append: appends only when the value is not present
DistinctAppend(s, x) == IF InSeq(s, x) THEN s ELSE Append(s, x)

FirstIndex(s, x) == CHOOSE i \in 1..Len(s) : s[i] = x /\ \A j \in 1..(i - 1) : s[j] # x

\* DistinctList.remove: removes the first occurrence, silent when absent
DistinctRemove(s, x) ==
    IF InSeq(s, x)
    THEN LET i == FirstIndex(s, x)
         IN SubSeq(s, 1, i - 1) \o SubSeq(s, i + 1, Len(s))
    ELSE s

(***************************************************************************)
(* Geometry.                                                               *)
(***************************************************************************)
PAdd(p, q) == <<p[1] + q[1], p[2] + q[2]>>

PSub(p, q) == <<p[1] - q[1], p[2] - q[2]>>

\* snapF: round(value / gridsize) * gridsize with Python's round-half-even
snapF(value, gridsize) ==
    LET q == value \div gridsize
        r == value % gridsize
    IN IF 2 * r < gridsize THEN q * gridsize
       ELSE IF 2 * r > gridsize THEN (q + 1) * gridsize
       ELSE IF q % 2 = 0 THEN q * gridsize ELSE (q + 1) * gridsize

InBox(p) == p[1] \in 0..MaxCoord /\ p[2] \in 0..MaxCoord

Abs(x) == IF x < 0 THEN -x ELSE x

(***************************************************************************)
(* Item classes.                                                           *)
(***************************************************************************)
\* classes whose instances carry a label
HasLabel(type) == type \in {"ConceptNode", "RoleNode", "ValueDomainNode"}

\* label.editable
LabelEditable(type) == type \in {"ConceptNode", "RoleNode"}

DefaultLabel(type) ==
    CASE type = "ConceptNode" -> "concept"
      [] type = "RoleNode" -> "role"
      [] type = "ValueDomainNode" -> "xsd:string"
      [] OTHER -> ""

\* references to graphics items: <<"n", handle>> or <<"e", handle>>
NodeRef(h) == <<"n", h>>

EdgeRef(h) == <<"e", h>>

isNode(it) == it[1] = "n"

isEdge(it) == it[1] = "e"

VARIABLES
    nodeObjs,           \* node objects ever constructed, by handle
    edgeObjs,           \* edge objects ever constructed, by handle
    sceneItems,         \* items held by the graphics scene
    nodesById,          \* DiagramScene.nodesById: id -> node handle
    edgesById,          \* DiagramScene.edgesById: id -> edge handle
    nodesByLabel,       \* DiagramScene.nodesByLabel: text -> DistinctList of node handles
    uniqueID,           \* DiagramScene.uniqueID: prefix -> next counter
    undostack,          \* DiagramScene.undostack: [cmds, index]
    mode,               \* DiagramScene.mode
    modeParam,          \* DiagramScene.modeParam
    command,            \* DiagramScene.command: handle of the pending edge, or None
    mouseOverNode,      \* DiagramScene.mouseOverNode
    mousePressPos,      \* DiagramScene.mousePressPos
    mousePressNode,     \* DiagramScene.mousePressNode
    mousePressNodePos,  \* DiagramScene.mousePressNodePos
    mousePressData,     \* DiagramScene.mousePressData
    selection,          \* handles of the selected nodes
    checked,            \* palette buttons that are checked
    snapSetting,        \* settings value 'scene/snap_to_grid'
    call,               \* the last call of an axiom composer: arguments and result
    buttons,            \* mouse buttons currently held
    raised,             \* TRUE once an event handler has raised
    pushes,             \* number of commands pushed so far (observation only)
    gesture,            \* the primary-button gesture in progress (observation only)
    dialog              \* the SyntaxValidationDialog: its fields and where doProgress stands

vars == <<nodeObjs, edgeObjs, sceneItems, nodesById, edgesById, nodesByLabel,
          uniqueID, undostack, mode, modeParam, command, mouseOverNode,
          mousePressPos, mousePressNode, mousePressNodePos, mousePressData,
          selection, checked, snapSetting, call, buttons, raised, pushes, gesture,
          dialog>>

(***************************************************************************)
(* The scene's entity collections, bundled so that addItem, removeItem and *)
(* the commands can be written as functions from collections to            *)
(* collections.                                                            *)
(***************************************************************************)
World ==
    [nodeObjs |-> nodeObjs, edgeObjs |-> edgeObjs, sceneItems |-> sceneItems,
     nodesById |-> nodesById, edgesById |-> edgesById, nodesByLabel |-> nodesByLabel]

SetWorld(W) ==
    /\ nodeObjs' = W.nodeObjs
    /\ edgeObjs' = W.edgeObjs
    /\ sceneItems' = W.sceneItems
    /\ nodesById' = W.nodesById
    /\ edgesById' = W.edgesById
    /\ nodesByLabel' = W.nodesByLabel

ItemId(W, it) == IF isNode(it) THEN W.nodeObjs[it[2]].id ELSE W.edgeObjs[it[2]].id

\* the item carries a label whose editable attribute is set
IndexedByLabel(W, it) ==
    isNode(it) /\ HasLabel(W.nodeObjs[it[2]].type) /\ LabelEditable(W.nodeObjs[it[2]].type)

\* DiagramScene.addItem, a mutation: the label index is not updated
addItem_NoLabelIndex(W, it) ==
    LET W1 == [W EXCEPT !.sceneItems = @ \cup {it}]
    IN IF isNode(it)
       THEN [W1 EXCEPT !.nodesById = Put(@, ItemId(W, it), it[2])]
       ELSE [W1 EXCEPT !.edgesById = Put(@, ItemId(W, it), it[2])]

\* DiagramScene.addItem, a mutation: the label bucket is a plain list
addItem_PlainList(W, it) ==
    LET W1 == [W EXCEPT !.sceneItems = @ \cup {it}]
        W2 == IF isNode(it)
              THEN [W1 EXCEPT !.nodesById = Put(@, ItemId(W, it), it[2])]
              ELSE [W1 EXCEPT !.edgesById = Put(@, ItemId(W, it), it[2])]
    IN IF IndexedByLabel(W, it)
       THEN LET index == W.nodeObjs[it[2]].label
                bucket == IF index \in DOMAIN W.nodesByLabel
                          THEN W.nodesByLabel[index] ELSE <<>>
            IN [W2 EXCEPT !.nodesByLabel = Put(@, index, Append(bucket, it[2]))]
       ELSE W2

\* DiagramScene.addItem
addItem(W, it) ==
    LET W1 == [W EXCEPT !.sceneItems = @ \cup {it}]
        W2 == IF isNode(it)
              THEN [W1 EXCEPT !.nodesById = Put(@, ItemId(W, it), it[2])]
              ELSE [W1 EXCEPT !.edgesById = Put(@, ItemId(W, it), it[2])]
    IN IF IndexedByLabel(W, it)
       THEN LET index == W.nodeObjs[it[2]].label
                bucket == IF index \in DOMAIN W.nodesByLabel
                          THEN W.nodesByLabel[index] ELSE <<>>
            IN [W2 EXCEPT !.nodesByLabel = Put(@, index, DistinctAppend(bucket, it[2]))]
       ELSE W2

\* DiagramScene.removeItem, a mutation: the indices are not updated
removeItem_SceneOnly(W, it) == [W EXCEPT !.sceneItems = @ \ {it}]

\* DiagramScene.removeItem
removeItem(W, it) ==
    LET W1 == [W EXCEPT !.sceneItems = @ \ {it}]
        W2 == IF isNode(it)
              THEN [W1 EXCEPT !.nodesById = Pop(@, ItemId(W, it))]
              ELSE [W1 EXCEPT !.edgesById = Pop(@, ItemId(W, it))]
    IN IF IndexedByLabel(W, it) /\ W.nodeObjs[it[2]].label \in DOMAIN W.nodesByLabel
       THEN LET index == W.nodeObjs[it[2]].label
                bucket == DistinctRemove(W.nodesByLabel[index], it[2])
            IN IF bucket = <<>>
               THEN [W2 EXCEPT !.nodesByLabel = Pop(@, index)]
               ELSE [W2 EXCEPT !.nodesByLabel = Put(@, index, bucket)]
       ELSE W2

\* Node.addEdge / Node.removeEdge: the node's DistinctList of incident edges
nodeAddEdge(W, n, e) == [W EXCEPT !.nodeObjs[n].edges = DistinctAppend(@, e)]

nodeRemoveEdge(W, n, e) == [W EXCEPT !.nodeObjs[n].edges = DistinctRemove(@, e)]

\* UniqueID.next: the id built from the current counter of the prefix
NextId(prefix) == <<prefix, uniqueID[prefix]>>

\* UniqueID.next, a mutation: the counter is not advanced
NextCounters_Stuck(prefix) == uniqueID

\* UniqueID.next, a mutation: one counter is shared by all prefixes
NextCounters_Shared(prefix) == [q \in DOMAIN uniqueID |-> uniqueID[q] + 1]

\* UniqueID.next: the counters after the call
NextCounters(prefix) == [uniqueID EXCEPT ![prefix] = @ + 1]

\* Node constructor: a new node object of the given class, not yet in the scene
NewNode(type, id, pos) ==
    [id |-> id, type |-> type, pos |-> pos, label |-> DefaultLabel(type),
     edges |-> <<>>, anchors |-> EmptyDict, flags |-> {}]

\* Edge constructor: a new edge object with the given endpoints
NewEdge(type, id, source, target, breakpoints) ==
    [id |-> id, type |-> type, source |-> source, target |-> target,
     breakpoints |-> breakpoints, complete |-> FALSE, selected |-> FALSE]

(***************************************************************************)
(* The undo stack (QUndoStack with an undo limit) and the commands.        *)
(***************************************************************************)
\* QUndoStack.count
Count(stack) == Len(stack.cmds)

\* QUndoStack.push, a mutation: the commands above the cursor are kept
Push_KeepsTail(stack, cmd) ==
    LET kept == SubSeq(stack.cmds, 1, stack.index) \o <<cmd>>
                   \o SubSeq(stack.cmds, stack.index + 1, Len(stack.cmds))
    IN [cmds |-> kept, index |-> stack.index + 1]

\* QUndoStack.push, a mutation: the undo limit is not applied
Push_NoLimit(stack, cmd) ==
    LET kept == Append(SubSeq(stack.cmds, 1, stack.index), cmd)
    IN [cmds |-> kept, index |-> Len(kept)]

\* QUndoStack.push, the bookkeeping: the commands above the cursor are
\* deleted, the command is appended and, past the undo limit, the oldest
\* command is deleted. The command's redo is applied by the caller.
Push(stack, cmd) ==
    LET kept == Append(SubSeq(stack.cmds, 1, stack.index), cmd)
        cmds == IF Len(kept) > UndoLimit THEN Tail(kept) ELSE kept
    IN [cmds |-> cmds, index |-> Len(cmds)]

\* the positions, anchors and breakpoints recorded in a move snapshot, applied
ApplyMoveData(W, data) ==
    LET movedNodes == [n \in 1..Len(W.nodeObjs) |->
                          IF n \in DOMAIN data.nodes
                          THEN [W.nodeObjs[n] EXCEPT
                                   !.pos = data.nodes[n].pos,
                                   !.anchors = [e \in (DOMAIN @) \cup (DOMAIN data.nodes[n].anchors) |->
                                                   IF e \in DOMAIN data.nodes[n].anchors
                                                   THEN data.nodes[n].anchors[e] ELSE @[e]]]
                          ELSE W.nodeObjs[n]]
        movedEdges == [e \in 1..Len(W.edgeObjs) |->
                          IF e \in DOMAIN data.edges
                          THEN [W.edgeObjs[e] EXCEPT !.breakpoints = data.edges[e]]
                          ELSE W.edgeObjs[e]]
    IN [W EXCEPT !.nodeObjs = movedNodes, !.edgeObjs = movedEdges]

\* CommandNodeAdd.redo / undo
NodeAddRedo(W, c) == addItem(W, NodeRef(c.node))

NodeAddUndo(W, c) == removeItem(W, NodeRef(c.node))

\* CommandEdgeAdd.redo: nothing to do when the edge is in the scene already
EdgeAddRedo(W, c) ==
    IF EdgeRef(c.edge) \in W.sceneItems
    THEN W
    ELSE LET e == W.edgeObjs[c.edge]
         IN nodeAddEdge(nodeAddEdge(addItem(W, EdgeRef(c.edge)), e.source, c.edge),
                        e.target, c.edge)

\* CommandEdgeAdd.undo
EdgeAddUndo(W, c) ==
    LET e == W.edgeObjs[c.edge]
    IN removeItem(nodeRemoveEdge(nodeRemoveEdge(W, e.source, c.edge), e.target, c.edge),
                  EdgeRef(c.edge))

\* CommandNodeMove.redo / undo
NodeMoveRedo(W, c) == ApplyMoveData(W, c.pos2)

NodeMoveUndo(W, c) == ApplyMoveData(W, c.pos1)

\* the node leaves the bucket of a label text; an emptied bucket is deleted
Unindex(W, text, n) ==
    IF text \in DOMAIN W.nodesByLabel
    THEN LET bucket == DistinctRemove(W.nodesByLabel[text], n)
         IN IF bucket = <<>>
            THEN [W EXCEPT !.nodesByLabel = Pop(@, text)]
            ELSE [W EXCEPT !.nodesByLabel = Put(@, text, bucket)]
    ELSE W

\* the node enters the bucket of a label text, created when absent
Reindex(W, text, n) ==
    LET bucket == IF text \in DOMAIN W.nodesByLabel THEN W.nodesByLabel[text] ELSE <<>>
    IN [W EXCEPT !.nodesByLabel = Put(@, text, DistinctAppend(bucket, n))]

\* the label text of a node changes from one text to another
Relabel(W, n, from, to) ==
    Reindex([Unindex(W, from, n) EXCEPT !.nodeObjs[n].label = to], to, n)

\* CommandNodeLabelEdit.redo / undo
LabelEditRedo(W, c) == Relabel(W, c.node, c.undo, c.redo)

LabelEditUndo(W, c) == Relabel(W, c.node, c.redo, c.undo)

\* an edge is detached from its end points and removed from the scene
DetachEdge(W, e) ==
    removeItem(nodeRemoveEdge(nodeRemoveEdge(W, W.edgeObjs[e].source, e),
                              W.edgeObjs[e].target, e),
               EdgeRef(e))

\* an edge is added to the scene and attached to its end points
AttachEdge(W, e) ==
    nodeAddEdge(nodeAddEdge(addItem(W, EdgeRef(e)), W.edgeObjs[e].source, e),
                W.edgeObjs[e].target, e)

\* the edges of a sequence are detached in turn
RECURSIVE DetachEdges(_, _)
DetachEdges(W, edges) ==
    IF edges = <<>> THEN W ELSE DetachEdges(DetachEdge(W, Head(edges)), Tail(edges))

\* the edges of a sequence are attached in turn
RECURSIVE AttachEdges(_, _)
AttachEdges(W, edges) ==
    IF edges = <<>> THEN W ELSE AttachEdges(AttachEdge(W, Head(edges)), Tail(edges))

\* the nodes of a sequence are removed from the scene in turn
RECURSIVE removeNodes(_, _)
removeNodes(W, nodes) ==
    IF nodes = <<>> THEN W ELSE removeNodes(removeItem(W, NodeRef(Head(nodes))), Tail(nodes))

\* the nodes of a sequence are added to the scene in turn
RECURSIVE addNodes(_, _)
addNodes(W, nodes) ==
    IF nodes = <<>> THEN W ELSE addNodes(addItem(W, NodeRef(Head(nodes))), Tail(nodes))

\* the command that removes items: the edges first, then the nodes; undo
\* adds the nodes, then the edges
ItemsRemoveRedo(W, c) == removeNodes(DetachEdges(W, c.edges), c.nodes)

ItemsRemoveUndo(W, c) == AttachEdges(addNodes(W, c.nodes), c.edges)

\* the flag of an axiom is set or cleared on a node
SetFlag(W, n, flag, value) ==
    [W EXCEPT !.nodeObjs[n].flags = IF value THEN @ \cup {flag} ELSE @ \ {flag}]

\* the command that adds the items of a composed axiom, the nodes, then the
\* edges, and sets the flag of the axiom on the source; undo removes the
\* edges, then the nodes, and clears the flag
ComposeRedo(W, c) ==
    SetFlag(AttachEdges(addNodes(W, c.nodes), c.edges), c.source, c.axiom, TRUE)

ComposeUndo(W, c) ==
    SetFlag(removeNodes(DetachEdges(W, c.edges), c.nodes), c.source, c.axiom, FALSE)

\* the removal of a composed axiom, a mutation: the flag is not cleared
DecomposeRedo_KeepsFlag(W, c) == removeNodes(DetachEdges(W, c.edges), c.nodes)

\* the command that removes the items of a composed axiom and clears the
\* flag; undo adds them and sets the flag
DecomposeRedo(W, c) ==
    SetFlag(removeNodes(DetachEdges(W, c.edges), c.nodes), c.source, c.axiom, FALSE)

DecomposeUndo(W, c) ==
    SetFlag(AttachEdges(addNodes(W, c.nodes), c.edges), c.source, c.axiom, TRUE)

\* the command that sets one flag of one node, a mutation: undo clears the
\* flag whatever its value was
NodeFlagUndo_Clears(W, c) == SetFlag(W, c.node, c.flag, FALSE)

\* the command that sets one flag of one node: redo sets the new value, undo
\* the value the flag had

NodeFlagRedo(W, c) == SetFlag(W, c.node, c.flag, c.redo)

NodeFlagUndo(W, c) == SetFlag(W, c.node, c.flag, c.undo)

\* CommandRefactor.redo: the label changes of the collection, in order
RECURSIVE RefactorRedo(_, _)
RefactorRedo(W, cmds) ==
    IF cmds = <<>> THEN W ELSE RefactorRedo(LabelEditRedo(W, Head(cmds)), Tail(cmds))

\* CommandRefactor.undo: the label changes of the collection are undone, the
\* last first
RECURSIVE RefactorUndo(_, _)
RefactorUndo(W, cmds) ==
    IF cmds = <<>> THEN W
    ELSE RefactorUndo(LabelEditUndo(W, cmds[Len(cmds)]), SubSeq(cmds, 1, Len(cmds) - 1))

\* CommandEdgeInclusionToggleComplete.redo: every edge of the data gets the
\* value the command was made with
EdgeCompleteRedo(W, c) ==
    [W EXCEPT !.edgeObjs = [e \in DOMAIN @ |->
        IF e \in DOMAIN c.data THEN [@[e] EXCEPT !.complete = c.data[e].to] ELSE @[e]]]

\* CommandEdgeInclusionToggleComplete.undo: every edge of the data gets the
\* value it had
EdgeCompleteUndo(W, c) ==
    [W EXCEPT !.edgeObjs = [e \in DOMAIN @ |->
        IF e \in DOMAIN c.data THEN [@[e] EXCEPT !.complete = c.data[e].from] ELSE @[e]]]

\* QUndoCommand.redo, by class of command
CmdRedo(W, c) ==
    CASE c.kind = "NodeAdd" -> NodeAddRedo(W, c)
      [] c.kind = "EdgeAdd" -> EdgeAddRedo(W, c)
      [] c.kind = "NodeMove" -> NodeMoveRedo(W, c)
      [] c.kind = "LabelEdit" -> LabelEditRedo(W, c)
      [] c.kind = "ItemsRemove" -> ItemsRemoveRedo(W, c)
      [] c.kind = "Compose" -> ComposeRedo(W, c)
      [] c.kind = "Decompose" -> DecomposeRedo(W, c)
      [] c.kind = "NodeFlag" -> NodeFlagRedo(W, c)
      [] c.kind = "Refactor" -> RefactorRedo(W, c.commands)
      [] c.kind = "EdgeComplete" -> EdgeCompleteRedo(W, c)

\* QUndoCommand.undo, by class of command
CmdUndo(W, c) ==
    CASE c.kind = "NodeAdd" -> NodeAddUndo(W, c)
      [] c.kind = "EdgeAdd" -> EdgeAddUndo(W, c)
      [] c.kind = "NodeMove" -> NodeMoveUndo(W, c)
      [] c.kind = "LabelEdit" -> LabelEditUndo(W, c)
      [] c.kind = "ItemsRemove" -> ItemsRemoveUndo(W, c)
      [] c.kind = "Compose" -> ComposeUndo(W, c)
      [] c.kind = "Decompose" -> DecomposeUndo(W, c)
      [] c.kind = "NodeFlag" -> NodeFlagUndo(W, c)
      [] c.kind = "Refactor" -> RefactorUndo(W, c.commands)
      [] c.kind = "EdgeComplete" -> EdgeCompleteUndo(W, c)

(***************************************************************************)
(* Scene services.                                                         *)
(***************************************************************************)
\* DiagramScene.snapToGrid, a mutation: the setting is not consulted
snapToGrid_Off(point) == point

\* DiagramScene.snapToGrid
snapToGrid(point) ==
    IF snapSetting
    THEN <<snapF(point[1], GridSize), snapF(point[2], GridSize)>>
    ELSE point

\* the nodes of the scene whose shape contains the point
NodesAt(W, point) ==
    {n \in 1..Len(W.nodeObjs) :
        /\ NodeRef(n) \in W.sceneItems
        /\ Abs(W.nodeObjs[n].pos[1] - point[1]) <= HitRadius
        /\ Abs(W.nodeObjs[n].pos[2] - point[2]) <= HitRadius}

\* DiagramScene.itemOnTopOf, a mutation: the skipped items are candidates too
itemOnTopOf_NothingSkipped(W, point, skip) ==
    IF NodesAt(W, point) = {} THEN {None} ELSE NodesAt(W, point)

\* DiagramScene.itemOnTopOf(point, edges=False, skip=skip): the candidates;
\* the nodes share one zValue, so which of several overlapping nodes is
\* returned is left open. {None} when there is no candidate.
itemOnTopOf(W, point, skip) ==
    IF NodesAt(W, point) \ skip = {} THEN {None} ELSE NodesAt(W, point) \ skip

\* DiagramScene.selectedNodes
selectedNodes(W, sel) == {n \in sel : NodeRef(n) \in W.sceneItems}

(***************************************************************************)
(* The axiom composers. Each returns the items of the composed subgraph,   *)
(* constructed but not added to the scene: the records of the new nodes    *)
(* and edges, in order of construction. The new nodes take the handles     *)
(* after the last node object, the new edges those after the last edge     *)
(* object, and each takes the next id of its kind.                         *)
(***************************************************************************)
\* half of width() and of height() of the shape of a node class
HalfExtent(type) ==
    CASE type = "RoleNode" -> <<35, 25>>
      [] type = "AttributeNode" -> <<10, 10>>
      [] OTHER -> <<10, 10>>

\* the k-th id of a kind handed out from the counters uid
IdAfter(uid, prefix, k) == <<prefix, uid[prefix] + k - 1>>

\* the eight candidate offsets around a source: right, left, above, below,
\* right-above, left-above, right-below, left-below
SourceOffsets(type) ==
    LET hw == HalfExtent(type)[1]
        hh == HalfExtent(type)[2]
        xr == snapF(hw + 90, GridSize)
        xl == snapF(0 - hw - 90, GridSize)
        ya == snapF(0 - hh - 70, GridSize)
        yb == snapF(hh + 70, GridSize)
    IN << <<xr, 0>>, <<xl, 0>>, <<0, ya>>, <<0, yb>>,
          <<xr, ya>>, <<xl, ya>>, <<xr, yb>>, <<xl, yb>> >>

\* the four candidate offsets of the second node around the first
SecondOffsets(type) ==
    LET hw == HalfExtent(type)[1]
        hh == HalfExtent(type)[2]
    IN << <<snapF(hw + 120, GridSize), 0>>, <<snapF(0 - hw - 120, GridSize), 0>>,
          <<0, snapF(0 - hh - 80, GridSize)>>, <<0, snapF(hh + 80, GridSize)>> >>

\* the loop `for o in offsets: if count < num: num = count; pos = ...`, a
\* mutation: `<=` in place of `<`
RECURSIVE LeastOccupied_Last(_, _, _)
LeastOccupied_Last(occ, i, best) ==
    IF i > Len(occ) THEN best
    ELSE IF best = None \/ occ[i] <= occ[best]
         THEN LeastOccupied_Last(occ, i + 1, i)
         ELSE LeastOccupied_Last(occ, i + 1, best)

\* the loop `for o in offsets: if count < num: num = count; pos = ...`:
\* occ[i] is the count of the probe of the i-th candidate, best the index
\* kept so far (None while num is sys.maxsize)
RECURSIVE LeastOccupied(_, _, _)
LeastOccupied(occ, i, best) ==
    IF i > Len(occ) THEN best
    ELSE IF best = None \/ occ[i] < occ[best]
         THEN LeastOccupied(occ, i + 1, i)
         ELSE LeastOccupied(occ, i + 1, best)

\* no pair of candidates is kept yet (num1 and num2 are sys.maxsize)
NoPair == <<>>

\* itertools.product(*offsets): the k-th pair of candidate indices, the
\* first varying slowest
ProductPair(k, n2) == <<((k - 1) \div n2) + 1, ((k - 1) % n2) + 1>>

\* the loop over the product, a mutation: `if count1 < num1`, the count of
\* the second probe is not added
RECURSIVE LeastOccupiedPair_FirstOnly(_, _, _, _)
LeastOccupiedPair_FirstOnly(occ1, occ2, k, best) ==
    LET n2 == Len(occ2[1])
        pr == ProductPair(k, n2)
    IN IF k > Len(occ1) * n2 THEN best
       ELSE IF best = NoPair \/ occ1[pr[1]] < occ1[best[1]]
            THEN LeastOccupiedPair_FirstOnly(occ1, occ2, k + 1, pr)
            ELSE LeastOccupiedPair_FirstOnly(occ1, occ2, k + 1, best)

\* the loop over the product of the two candidate lists:
\* `if count1 + count2 < num1 + num2`, best the pair kept so far
RECURSIVE LeastOccupiedPair(_, _, _, _)
LeastOccupiedPair(occ1, occ2, k, best) ==
    LET n2 == Len(occ2[1])
        pr == ProductPair(k, n2)
    IN IF k > Len(occ1) * n2 THEN best
       ELSE IF best = NoPair
               \/ occ1[pr[1]] + occ2[pr[1]][pr[2]] < occ1[best[1]] + occ2[best[1]][best[2]]
            THEN LeastOccupiedPair(occ1, occ2, k + 1, pr)
            ELSE LeastOccupiedPair(occ1, occ2, k + 1, best)

\* DiagramScene.asymmetricRoleAxiomComposition
asymmetricRoleAxiomComposition(W, uid, source) ==
    LET src == W.nodeObjs[source]
        sx == src.pos[1]
        sy == src.pos[2]
        hw == HalfExtent(src.type)[1]
        hh == HalfExtent(src.type)[2]
        hn == Len(W.nodeObjs)
        x1 == snapF(sx + hw + 100, GridSize)
        y1 == snapF(sy - hh - 40, GridSize)
        y2 == snapF(sy - hh - 80, GridSize)
        node1 == NewNode("RoleInverseNode", IdAfter(uid, "n", 1), <<x1, sy>>)
        node2 == NewNode("ComplementNode", IdAfter(uid, "n", 2), <<x1, y1>>)
        edge1 == NewEdge("InputEdge", IdAfter(uid, "e", 1), source, hn + 1, <<>>)
        edge2 == NewEdge("InputEdge", IdAfter(uid, "e", 2), hn + 1, hn + 2, <<>>)
        edge3 == NewEdge("InclusionEdge", IdAfter(uid, "e", 3), source, hn + 2, << <<sx, y2>>, <<x1, y2>> >>)
    IN [nodes |-> <<node1, node2>>, edges |-> <<edge1, edge2, edge3>>]

\* DiagramScene.functionalAxiomComposition, a mutation: the Input edge is
\* not returned
functionalAxiomComposition_NoEdge(W, uid, source, occ1) ==
    [nodes |-> <<NewNode("DomainRestrictionNode", IdAfter(uid, "n", 1),
                         PAdd(W.nodeObjs[source].pos,
                              SourceOffsets(W.nodeObjs[source].type)[LeastOccupied(occ1, 1, None)]))>>,
     edges |-> <<>>]

\* DiagramScene.functionalAxiomComposition: occ1[i] is the number of items in
\* the probe rectangle of the i-th candidate offset
functionalAxiomComposition(W, uid, source, occ1) ==
    LET src == W.nodeObjs[source]
        sx == src.pos[1]
        sy == src.pos[2]
        hw == HalfExtent(src.type)[1]
        hh == HalfExtent(src.type)[2]
        hn == Len(W.nodeObjs)
        best == LeastOccupied(occ1, 1, None)
        node1 == NewNode("DomainRestrictionNode", IdAfter(uid, "n", 1), PAdd(src.pos, SourceOffsets(src.type)[best]))
        edge1 == NewEdge("InputEdge", IdAfter(uid, "e", 1), source, hn + 1, <<>>)
    IN [nodes |-> <<node1>>, edges |-> <<edge1>>]

\* DiagramScene.inverseFunctionalAxiomComposition
inverseFunctionalAxiomComposition(W, uid, source, occ1) ==
    LET src == W.nodeObjs[source]
        sx == src.pos[1]
        sy == src.pos[2]
        hw == HalfExtent(src.type)[1]
        hh == HalfExtent(src.type)[2]
        hn == Len(W.nodeObjs)
        best == LeastOccupied(occ1, 1, None)
        node1 == NewNode("RangeRestrictionNode", IdAfter(uid, "n", 1), PAdd(src.pos, SourceOffsets(src.type)[best]))
        edge1 == NewEdge("InputEdge", IdAfter(uid, "e", 1), source, hn + 1, <<>>)
    IN [nodes |-> <<node1>>, edges |-> <<edge1>>]

\* DiagramScene.irreflexiveRoleAxiomComposition, a mutation: the Inclusion
\* edge starts at the Domain restriction, and nothing joins the TOP Concept
irreflexiveRoleAxiomComposition_LooseTop(W, uid, source) ==
    LET src == W.nodeObjs[source]
        sy == src.pos[2]
        hw == HalfExtent(src.type)[1]
        hn == Len(W.nodeObjs)
        x1 == snapF(src.pos[1] + hw + 40, GridSize)
        x2 == snapF(src.pos[1] + hw + 120, GridSize)
        x3 == snapF(src.pos[1] + hw + 250, GridSize)
        node1 == NewNode("DomainRestrictionNode", IdAfter(uid, "n", 1), <<x1, sy>>)
        node2 == NewNode("ComplementNode", IdAfter(uid, "n", 2), <<x2, sy>>)
        node3 == [NewNode("ConceptNode", IdAfter(uid, "n", 3), <<x3, sy>>) EXCEPT !.label = "TOP"]
        edge1 == NewEdge("InputEdge", IdAfter(uid, "e", 1), source, hn + 1, <<>>)
        edge2 == NewEdge("InputEdge", IdAfter(uid, "e", 2), hn + 1, hn + 2, <<>>)
        edge3 == NewEdge("InclusionEdge", IdAfter(uid, "e", 3), hn + 1, hn + 2, <<>>)
    IN [nodes |-> <<node1, node2, node3>>, edges |-> <<edge1, edge2, edge3>>]

\* DiagramScene.irreflexiveRoleAxiomComposition
irreflexiveRoleAxiomComposition(W, uid, source) ==
    LET src == W.nodeObjs[source]
        sx == src.pos[1]
        sy == src.pos[2]
        hw == HalfExtent(src.type)[1]
        hh == HalfExtent(src.type)[2]
        hn == Len(W.nodeObjs)
        x1 == snapF(sx + hw + 40, GridSize)
        x2 == snapF(sx + hw + 120, GridSize)
        x3 == snapF(sx + hw + 250, GridSize)
        node1 == NewNode("DomainRestrictionNode", IdAfter(uid, "n", 1), <<x1, sy>>)
        node2 == NewNode("ComplementNode", IdAfter(uid, "n", 2), <<x2, sy>>)
        node3 == [NewNode("ConceptNode", IdAfter(uid, "n", 3), <<x3, sy>>) EXCEPT !.label = "TOP"]
        edge1 == NewEdge("InputEdge", IdAfter(uid, "e", 1), source, hn + 1, <<>>)
        edge2 == NewEdge("InputEdge", IdAfter(uid, "e", 2), hn + 1, hn + 2, <<>>)
        edge3 == NewEdge("InclusionEdge", IdAfter(uid, "e", 3), hn + 3, hn + 2, <<>>)
    IN [nodes |-> <<node1, node2, node3>>, edges |-> <<edge1, edge2, edge3>>]

\* DiagramScene.propertyDomainAxiomComposition
propertyDomainAxiomComposition(W, uid, source, occ1) ==
    LET src == W.nodeObjs[source]
        sx == src.pos[1]
        sy == src.pos[2]
        hw == HalfExtent(src.type)[1]
        hh == HalfExtent(src.type)[2]
        hn == Len(W.nodeObjs)
        best == LeastOccupied(occ1, 1, None)
        node1 == NewNode("DomainRestrictionNode", IdAfter(uid, "n", 1), PAdd(src.pos, SourceOffsets(src.type)[best]))
        edge1 == NewEdge("InputEdge", IdAfter(uid, "e", 1), source, hn + 1, <<>>)
    IN [nodes |-> <<node1>>, edges |-> <<edge1>>]

\* DiagramScene.propertyRangeAxiomComposition: occ2[i][j] is the number of
\* items in the probe rectangle of the second node at the i-th offset of the
\* first plus the j-th offset of the second. On a Role source only the first
\* count is compared; on an Attribute source the sum of the two.
propertyRangeAxiomComposition(W, uid, source, occ1, occ2) ==
    LET src == W.nodeObjs[source]
        hn == Len(W.nodeObjs)
        o1 == SourceOffsets(src.type)
        o2 == SecondOffsets("RangeRestrictionNode")
        edge1 == NewEdge("InputEdge", IdAfter(uid, "e", 1), source, hn + 1, <<>>)
        edge2 == NewEdge("InclusionEdge", IdAfter(uid, "e", 2), hn + 1, hn + 2, <<>>)
    IN IF src.type = "AttributeNode"
       THEN LET best == LeastOccupiedPair(occ1, occ2, 1, NoPair)
                pos1 == PAdd(src.pos, o1[best[1]])
                pos2 == PAdd(pos1, o2[best[2]])
            IN [nodes |-> <<NewNode("RangeRestrictionNode", IdAfter(uid, "n", 1), pos1),
                            NewNode("ValueDomainNode", IdAfter(uid, "n", 2), pos2)>>,
                edges |-> <<edge1, edge2>>]
       ELSE LET best == LeastOccupied(occ1, 1, None)
                pos1 == PAdd(src.pos, o1[best])
            IN [nodes |-> <<NewNode("RangeRestrictionNode", IdAfter(uid, "n", 1), pos1)>>,
                edges |-> <<edge1>>]

\* DiagramScene.reflexiveRoleAxiomComposition
reflexiveRoleAxiomComposition(W, uid, source) ==
    LET src == W.nodeObjs[source]
        sx == src.pos[1]
        sy == src.pos[2]
        hw == HalfExtent(src.type)[1]
        hh == HalfExtent(src.type)[2]
        hn == Len(W.nodeObjs)
        x1 == snapF(sx + hw + 40, GridSize)
        x2 == snapF(sx + hw + 250, GridSize)
        node1 == NewNode("DomainRestrictionNode", IdAfter(uid, "n", 1), <<x1, sy>>)
        node2 == [NewNode("ConceptNode", IdAfter(uid, "n", 2), <<x2, sy>>) EXCEPT !.label = "TOP"]
        edge1 == NewEdge("InputEdge", IdAfter(uid, "e", 1), source, hn + 1, <<>>)
        edge2 == NewEdge("InclusionEdge", IdAfter(uid, "e", 2), hn + 2, hn + 1, <<>>)
    IN [nodes |-> <<node1, node2>>, edges |-> <<edge1, edge2>>]

\* DiagramScene.symmetricRoleAxiomComposition, a mutation: the Inclusion
\* edge is not returned
symmetricRoleAxiomComposition_NoInclusion(W, uid, source) ==
    [nodes |-> <<NewNode("RoleInverseNode", IdAfter(uid, "n", 1),
                         <<snapF(W.nodeObjs[source].pos[1]
                                    + HalfExtent(W.nodeObjs[source].type)[1] + 100, GridSize),
                           W.nodeObjs[source].pos[2]>>)>>,
     edges |-> <<NewEdge("InputEdge", IdAfter(uid, "e", 1), source, Len(W.nodeObjs) + 1, <<>>)>>]

\* DiagramScene.symmetricRoleAxiomComposition
symmetricRoleAxiomComposition(W, uid, source) ==
    LET src == W.nodeObjs[source]
        sx == src.pos[1]
        sy == src.pos[2]
        hw == HalfExtent(src.type)[1]
        hh == HalfExtent(src.type)[2]
        hn == Len(W.nodeObjs)
        x1 == snapF(sx + hw + 100, GridSize)
        y1 == snapF(sy - hh - 80, GridSize)
        node1 == NewNode("RoleInverseNode", IdAfter(uid, "n", 1), <<x1, sy>>)
        edge1 == NewEdge("InputEdge", IdAfter(uid, "e", 1), source, hn + 1, <<>>)
        edge2 == NewEdge("InclusionEdge", IdAfter(uid, "e", 2), source, hn + 1, << <<sx, y1>>, <<x1, y1>> >>)
    IN [nodes |-> <<node1>>, edges |-> <<edge1, edge2>>]

\* DiagramScene.transitiveRoleAxiomComposition
transitiveRoleAxiomComposition(W, uid, source) ==
    LET src == W.nodeObjs[source]
        sx == src.pos[1]
        sy == src.pos[2]
        hw == HalfExtent(src.type)[1]
        hh == HalfExtent(src.type)[2]
        hn == Len(W.nodeObjs)
        x1 == snapF(sx + hw + 90, GridSize)
        x2 == snapF(sx + hw + 50, GridSize)
        x3 == snapF(sx - hw - 20, GridSize)
        y1 == snapF(sy - hh - 20, GridSize)
        y2 == snapF(sy + hh + 20, GridSize)
        y3 == snapF(sy - hh + 80, GridSize)
        node1 == NewNode("RoleChainNode", IdAfter(uid, "n", 1), <<x1, sy>>)
        edge1 == NewEdge("InputEdge", IdAfter(uid, "e", 1), source, hn + 1, << <<sx, y1>>, <<x2, y1>> >>)
        edge2 == NewEdge("InputEdge", IdAfter(uid, "e", 2), source, hn + 1, << <<sx, y2>>, <<x2, y2>> >>)
        edge3 == NewEdge("InclusionEdge", IdAfter(uid, "e", 3), hn + 1, source, << <<x1, y3>>, <<x3, y3>>, <<x3, sy>> >>)
    IN [nodes |-> <<node1>>, edges |-> <<edge1, edge2, edge3>>]

\* len(self.items(QRectF(centre - rad, centre + rad))): the number of items
\* on the probe rectangle with the given centre
ProbeCount(occ, centre) == CopiesIn(centre, occ)

\* the counts of the probes of the first node, by candidate
FirstCounts(W, source, occ) ==
    [i \in 1..Len(SourceOffsets(W.nodeObjs[source].type)) |->
        ProbeCount(occ, PAdd(W.nodeObjs[source].pos, SourceOffsets(W.nodeObjs[source].type)[i]))]

\* the counts of the probes of the second node, by pair of candidates
SecondCounts(W, source, occ) ==
    [i \in 1..Len(SourceOffsets(W.nodeObjs[source].type)) |->
        [j \in 1..Len(SecondOffsets("RangeRestrictionNode")) |->
            ProbeCount(occ, PAdd(PAdd(W.nodeObjs[source].pos,
                                      SourceOffsets(W.nodeObjs[source].type)[i]),
                                 SecondOffsets("RangeRestrictionNode")[j]))]]

\* the centres of the probes of the first node around a source
FirstPoints(W, source) ==
    {PAdd(W.nodeObjs[source].pos, SourceOffsets(W.nodeObjs[source].type)[i]) :
        i \in 1..Len(SourceOffsets(W.nodeObjs[source].type))}

\* the centres of the probes of the second node around a source
SecondPoints(W, source) ==
    {PAdd(p, SecondOffsets("RangeRestrictionNode")[j]) :
        p \in FirstPoints(W, source), j \in 1..Len(SecondOffsets("RangeRestrictionNode"))}

RoleAxioms == {"asymmetric", "irreflexive", "reflexive", "symmetric", "transitive"}

Composers == RoleAxioms \cup {"functional", "inverseFunctional", "propertyDomain", "propertyRange"}

\* the sources a composer is called on: the role axioms on a Role node, the
\* others on a Role or an Attribute node
Admissible(fn, type) ==
    IF fn \in RoleAxioms THEN type = "RoleNode" ELSE type \in {"RoleNode", "AttributeNode"}

\* the *AxiomComposition method of the given axiom
Composition(fn, W, uid, source, occ) ==
    CASE fn = "asymmetric" -> asymmetricRoleAxiomComposition(W, uid, source)
      [] fn = "functional" ->
            functionalAxiomComposition(W, uid, source, FirstCounts(W, source, occ))
      [] fn = "inverseFunctional" ->
            inverseFunctionalAxiomComposition(W, uid, source, FirstCounts(W, source, occ))
      [] fn = "irreflexive" -> irreflexiveRoleAxiomComposition(W, uid, source)
      [] fn = "propertyDomain" ->
            propertyDomainAxiomComposition(W, uid, source, FirstCounts(W, source, occ))
      [] fn = "propertyRange" ->
            propertyRangeAxiomComposition(W, uid, source, FirstCounts(W, source, occ),
                                          SecondCounts(W, source, occ))
      [] fn = "reflexive" -> reflexiveRoleAxiomComposition(W, uid, source)
      [] fn = "symmetric" -> symmetricRoleAxiomComposition(W, uid, source)
      [] fn = "transitive" -> transitiveRoleAxiomComposition(W, uid, source)

\* the objects a composer constructs: they exist, outside the scene, at the
\* end of the collections of objects
Constructed(W, items) ==
    [W EXCEPT !.nodeObjs = @ \o items.nodes, !.edgeObjs = @ \o items.edges]

\* the indices of the objects last appended to a collection
LastIndices(objs, k) == [i \in 1..k |-> Len(objs) - k + i]

\* handler of modeChanged: the palette is cleared when the scene turns idle
PaletteOnModeChanged(newMode, chk) == IF newMode = "Idle" THEN {} ELSE chk

\* DiagramScene.setMode together with the handler of the modeChanged signal,
\* which is emitted only when the mode or its parameter changes; chk is the
\* palette as the caller leaves it
setMode(newMode, param, chk) ==
    /\ mode' = newMode
    /\ modeParam' = param
    /\ checked' = IF mode # newMode \/ modeParam # param
                  THEN PaletteOnModeChanged(newMode, chk)
                  ELSE chk

\* handler of nodeInserted / edgeInserted, a mutation: the button of the
\* inserted class is unchecked and the mode is left as it is
InsertEnd_UncheckOnly(type, ctrl) ==
    /\ checked' = checked \ {type}
    /\ UNCHANGED <<mode, modeParam>>

\* handler of nodeInserted / edgeInserted: unless the multi-insert modifier is
\* held, the button of the inserted class is unchecked and the scene turns idle
InsertEnd(type, ctrl) ==
    IF ctrl
    THEN UNCHANGED <<mode, modeParam, checked>>
    ELSE setMode("Idle", "None", checked \ {type})

\* item selection done by the graphics framework on a primary press:
\* without the Control modifier a press on an unselected node selects it
\* alone and a press on no node clears the selection; with the modifier the
\* pressed node joins the selection
PressSelection(sel, node, ctrl) ==
    IF node = None THEN (IF ctrl THEN sel ELSE {})
    ELSE IF ctrl THEN sel \cup {node}
    ELSE IF node \in sel THEN sel ELSE {node}

\* mousePressData as a dictionary value
NoData == [tag |-> "None", nodes |-> EmptyDict, edges |-> EmptyDict]

EmptyData == [tag |-> "empty", nodes |-> EmptyDict, edges |-> EmptyDict]

NoGesture == [ph |-> "none"]

\* no axiom composer has been called: occ is the bag of the centres of the
\* probe rectangles on which items lie, n the number of calls so far
NoCall == [fn |-> "none", source |-> None, occ |-> EmptyBag, n |-> 0,
           nodes |-> <<>>, edges |-> <<>>]

\* the syntax validation dialog before it is shown: pc tells where its code
\* stands ("new": constructed, "events": doProgress is inside
\* QApplication.processEvents(), "idle": no slot is running), open whether it
\* is on screen, warning whether the buttons are shown, closed whether it has
\* been closed, popup whether the completion popup has been shown, checks
\* the number of calls of profile.check so far
NoDialog ==
    [pc |-> "new", i |-> 0, open |-> FALSE, warning |-> FALSE, closed |-> FALSE,
     popup |-> FALSE, checks |-> 0]

StartGesture ==
    [ph |-> "pressed", W0 |-> World, pushes0 |-> pushes, stack0 |-> undostack,
     mode0 |-> mode, node |-> None, moved |-> FALSE]

\* what is kept of a gesture once the button is released
EndGesture ==
    [ph |-> "released", pushes0 |-> gesture.pushes0, mode0 |-> gesture.mode0,
     node |-> gesture.node, moved |-> gesture.moved]

\* the variables of the interaction state machine that hold the drag capture
pressVars == <<mousePressPos, mousePressNode, mousePressNodePos, mousePressData>>

worldVars == <<nodeObjs, edgeObjs, sceneItems, nodesById, edgesById, nodesByLabel>>

\* the interaction state and the undo stack of a scene just constructed
InitScene ==
    /\ undostack = [cmds |-> <<>>, index |-> 0]
    /\ mode = "Idle"
    /\ modeParam = "None"
    /\ command = None
    /\ mouseOverNode = None
    /\ mousePressPos = NoPoint
    /\ mousePressNode = None
    /\ mousePressNodePos = NoPoint
    /\ mousePressData = EmptyData
    /\ selection = {}
    /\ checked = {}
    /\ snapSetting \in BOOLEAN
    /\ call = NoCall
    /\ buttons = {}
    /\ raised = FALSE
    /\ pushes = 0
    /\ gesture = NoGesture
    /\ dialog = NoDialog

\* a new, empty document
InitEmpty ==
    /\ nodeObjs = <<>>
    /\ edgeObjs = <<>>
    /\ sceneItems = {}
    /\ nodesById = EmptyDict
    /\ edgesById = EmptyDict
    /\ nodesByLabel = EmptyDict
    /\ uniqueID = [prefix \in {"n", "e"} |-> 0]

\* the nodes of the document that is opened
LoadedNodes ==
    <<NewNode("ConceptNode", <<"n", 0>>, <<0, 0>>),
      NewNode("ValueDomainNode", <<"n", 1>>, <<30, 10>>)>>

\* a document opened from a file: every node is added with addItem and its
\* id is made known to the id generator
InitLoaded ==
    LET W0 == [nodeObjs |-> LoadedNodes, edgeObjs |-> <<>>, sceneItems |-> {},
               nodesById |-> EmptyDict, edgesById |-> EmptyDict,
               nodesByLabel |-> EmptyDict]
        W == addItem(addItem(W0, NodeRef(1)), NodeRef(2))
    IN /\ nodeObjs = W.nodeObjs
       /\ edgeObjs = W.edgeObjs
       /\ sceneItems = W.sceneItems
       /\ nodesById = W.nodesById
       /\ edgesById = W.edgesById
       /\ nodesByLabel = W.nodesByLabel
       /\ uniqueID = [prefix \in {"n", "e"} |-> IF prefix = "n" THEN Len(LoadedNodes) ELSE 0]

Init == InitScene /\ (InitEmpty \/ InitLoaded)

(***************************************************************************)
(* DiagramScene.mousePressEvent                                            *)
(***************************************************************************)
\* self.nodeInserted.emit(node, mouseEvent.modifiers()), a mutation: the
\* modifiers are not passed on
NodeInsertSignal_NoModifiers(type, ctrl) == InsertEnd(type, FALSE)

\* self.nodeInserted.emit(node, mouseEvent.modifiers())
NodeInsertSignal(type, ctrl) == InsertEnd(type, ctrl)

\* the NodeInsert branch: a node of the selected class is created at the
\* snapped position and added through a CommandNodeAdd
PressNodeInsert(p, ctrl) ==
    LET h == Len(nodeObjs) + 1
        node == NewNode(modeParam, NextId("n"), snapToGrid(p))
        cmd == [kind |-> "NodeAdd", node |-> h]
        W1 == [World EXCEPT !.nodeObjs = Append(@, node)]
    IN /\ Len(nodeObjs) < MaxNodes
       /\ pushes < MaxPush
       /\ InBox(snapToGrid(p))
       /\ uniqueID' = NextCounters("n")
       /\ SetWorld(CmdRedo(W1, cmd))
       /\ undostack' = Push(undostack, cmd)
       /\ pushes' = pushes + 1
       /\ NodeInsertSignal(modeParam, ctrl)
       /\ selection' = IF ctrl THEN selection \cup {h} ELSE {h}
       /\ UNCHANGED <<command, mouseOverNode, pressVars, snapSetting, dialog, call, raised>>

\* the EdgeInsert branch: a press on a node creates the pending edge, holds
\* it in self.command and adds it to the scene
PressEdgeInsert(p, ctrl) ==
    \E node \in itemOnTopOf(World, p, {}) :
        /\ IF node # None
           THEN LET h == Len(edgeObjs) + 1
                    edge == NewEdge(modeParam, NextId("e"), node, None, <<>>)
                    W1 == [World EXCEPT !.edgeObjs = Append(@, edge)]
                IN /\ Len(edgeObjs) < MaxEdges
                   /\ uniqueID' = NextCounters("e")
                   /\ command' = h
                   /\ SetWorld(addItem(W1, EdgeRef(h)))
           ELSE UNCHANGED <<uniqueID, command, worldVars>>
        /\ selection' = PressSelection(selection, node, ctrl)
        /\ UNCHANGED <<undostack, pushes, mode, modeParam, checked, mouseOverNode,
                       pressVars, snapSetting, dialog, call, raised>>

\* edge.other(node)
other(edge, node) ==
    IF node = edge.source THEN edge.target
    ELSE IF node = edge.target THEN edge.source ELSE None

\* the edges moved together with the nodes, a mutation: one selected end
\* point is enough
CapturedEdges_AnyEnd(selected, sel) ==
    {e \in 1..Len(edgeObjs) : \E n \in selected : InSeq(nodeObjs[n].edges, e)}

\* the edges moved together with the nodes: both end points selected
CapturedEdges(selected, sel) ==
    {e \in 1..Len(edgeObjs) :
        \E n \in selected : InSeq(nodeObjs[n].edges, e) /\ other(edgeObjs[e], n) \in sel}

\* the snapshot taken at press time
CaptureData(selected, sel) ==
    [tag |-> "data",
     nodes |-> [n \in selected |->
                   [anchors |-> nodeObjs[n].anchors, pos |-> nodeObjs[n].pos]],
     edges |-> [e \in CapturedEdges(selected, sel) |-> edgeObjs[e].breakpoints]]

\* the remaining branch: in Idle mode a press on a node while nodes are
\* selected prepares the data of a move
PressOther(p, ctrl) ==
    \E node \in itemOnTopOf(World, p, {}) :
        LET sel == PressSelection(selection, node, ctrl)
            selected == selectedNodes(World, sel)
        IN /\ selection' = sel
           /\ IF mode = "Idle" /\ selected # {}
              THEN /\ mousePressNode' = node
                   /\ IF node # None
                      THEN /\ mousePressNodePos' = nodeObjs[node].pos
                           /\ mousePressPos' = p
                           /\ mousePressData' = CaptureData(selected, sel)
                      ELSE UNCHANGED <<mousePressNodePos, mousePressPos, mousePressData>>
              ELSE UNCHANGED pressVars
           /\ UNCHANGED <<worldVars, uniqueID, undostack, pushes, mode, modeParam, checked,
                          command, mouseOverNode, snapSetting, dialog, call, raised>>

MousePressEvent(b, p, ctrl) ==
    /\ ~raised
    /\ b \notin buttons
    /\ buttons' = buttons \cup {b}
    /\ IF LeftButton \in buttons \cup {b}
       THEN CASE mode = "NodeInsert" -> PressNodeInsert(p, ctrl)
              [] mode = "EdgeInsert" -> PressEdgeInsert(p, ctrl)
              [] OTHER -> PressOther(p, ctrl)
       ELSE UNCHANGED <<worldVars, uniqueID, undostack, pushes, mode, modeParam, checked,
                        command, mouseOverNode, pressVars, selection, snapSetting, dialog, call, raised>>
    /\ gesture' = IF b = LeftButton
                  THEN [StartGesture EXCEPT !.node = mousePressNode']
                  ELSE NoGesture

(***************************************************************************)
(* DiagramScene.mouseMoveEvent                                             *)
(***************************************************************************)
\* the EdgeInsert branch: the node under the pointer is tracked
MoveEdgeInsert(p) ==
    /\ IF command # None
       THEN \E node \in itemOnTopOf(World, p, {edgeObjs[command].source}) :
                mouseOverNode' = node
       ELSE UNCHANGED mouseOverNode
    /\ UNCHANGED <<worldVars, uniqueID, undostack, pushes, mode, modeParam, checked,
                   command, pressVars, selection, snapSetting, dialog, call, raised>>

\* the data of the press moved by delta, a mutation: the breakpoints of the
\* captured edges stay where they are
MovedData_NodesOnly(delta) ==
    [tag |-> "data",
     nodes |-> [n \in DOMAIN mousePressData.nodes |->
                   [anchors |-> [e \in DOMAIN mousePressData.nodes[n].anchors |->
                                    PAdd(mousePressData.nodes[n].anchors[e], delta)],
                    pos |-> PAdd(mousePressData.nodes[n].pos, delta)]],
     edges |-> mousePressData.edges]

\* the data of the press moved by delta
MovedData(delta) ==
    [tag |-> "data",
     nodes |-> [n \in DOMAIN mousePressData.nodes |->
                   [anchors |-> [e \in DOMAIN mousePressData.nodes[n].anchors |->
                                    PAdd(mousePressData.nodes[n].anchors[e], delta)],
                    pos |-> PAdd(mousePressData.nodes[n].pos, delta)]],
     edges |-> [e \in DOMAIN mousePressData.edges |->
                   [i \in 1..Len(mousePressData.edges[e]) |->
                       PAdd(mousePressData.edges[e][i], delta)]]]

\* the other branch: the first move after a press on a node turns the scene
\* to NodeMove, and in NodeMove every captured item follows the pointer
MoveOther(p) ==
    LET starts == mode = "Idle" /\ mousePressNode # None
    IN IF starts \/ mode = "NodeMove"
       THEN IF mousePressNodePos = NoPoint \/ mousePressPos = NoPoint
            THEN \* arithmetic on None raises TypeError
                 /\ raised' = TRUE
                 /\ UNCHANGED <<worldVars, uniqueID, undostack, pushes, mode, modeParam,
                                checked, command, mouseOverNode, pressVars, selection,
                                snapSetting, dialog, call>>
            ELSE LET snapped == snapToGrid(PAdd(mousePressNodePos, PSub(p, mousePressPos)))
                     delta == PSub(snapped, mousePressNodePos)
                     data == MovedData(delta)
                 IN /\ pushes < MaxPush
                    /\ \A n \in DOMAIN data.nodes : InBox(data.nodes[n].pos)
                    /\ setMode("NodeMove", "None", checked)
                    /\ SetWorld(ApplyMoveData(World, data))
                    /\ UNCHANGED <<uniqueID, undostack, pushes, command, mouseOverNode,
                                   pressVars, selection, snapSetting, dialog, call, raised>>
       ELSE UNCHANGED <<worldVars, uniqueID, undostack, pushes, mode, modeParam, checked,
                        command, mouseOverNode, pressVars, selection, snapSetting, dialog, call, raised>>

MouseMoveEvent(p) ==
    /\ ~raised
    /\ IF LeftButton \in buttons
       THEN IF mode = "EdgeInsert" THEN MoveEdgeInsert(p) ELSE MoveOther(p)
       ELSE UNCHANGED <<worldVars, uniqueID, undostack, pushes, mode, modeParam, checked,
                        command, mouseOverNode, pressVars, selection, snapSetting, dialog, call, raised>>
    /\ gesture' = IF LeftButton \in buttons /\ gesture.ph = "pressed"
                  THEN [gesture EXCEPT !.moved = TRUE]
                  ELSE NoGesture
    /\ UNCHANGED buttons

(***************************************************************************)
(* DiagramScene.mouseReleaseEvent                                          *)
(***************************************************************************)
\* the final statements of the handler: the press data is reset to None
ClearPressData ==
    /\ mousePressPos' = NoPoint
    /\ mousePressNode' = None
    /\ mousePressNodePos' = NoPoint
    /\ mousePressData' = NoData

\* the commit of the pending edge, a mutation: the target node does not
\* register the edge
CommitEdge_SourceOnly(W, e, node) ==
    nodeAddEdge([W EXCEPT !.edgeObjs[e].target = node], W.edgeObjs[e].source, e)

\* the pending edge gets its target and is registered on both end points
CommitEdge(W, e, node) ==
    LET W1 == [W EXCEPT !.edgeObjs[e].target = node]
    IN nodeAddEdge(nodeAddEdge(W1, W.edgeObjs[e].source, e), node, e)

\* the end of an edge insertion, a mutation: the selection is kept
EndEdgeInsert_KeepsSelection(type, ctrl) ==
    /\ InsertEnd(type, ctrl)
    /\ UNCHANGED selection
    /\ command' = None
    /\ mouseOverNode' = None

\* the end of an edge insertion, committed or not: the edgeInserted signal,
\* then the selection and the pending edge are cleared
EndEdgeInsert(type, ctrl) ==
    /\ InsertEnd(type, ctrl)
    /\ selection' = {}
    /\ command' = None
    /\ mouseOverNode' = None

\* the EdgeInsert branch: the pending edge is committed when a node other
\* than its source lies under the pointer, and removed otherwise
ReleaseEdgeInsert(p, ctrl) ==
    IF command # None
    THEN \E node \in itemOnTopOf(World, p, {edgeObjs[command].source}) :
            LET cmd == [kind |-> "EdgeAdd", edge |-> command]
            IN /\ IF node # None
                  THEN /\ pushes < MaxPush
                       /\ SetWorld(CmdRedo(CommitEdge(World, command, node), cmd))
                       /\ undostack' = Push(undostack, cmd)
                       /\ pushes' = pushes + 1
                  ELSE /\ SetWorld(removeItem(World, EdgeRef(command)))
                       /\ UNCHANGED <<undostack, pushes>>
               /\ EndEdgeInsert(edgeObjs[command].type, ctrl)
               /\ ClearPressData
               /\ UNCHANGED <<uniqueID, snapSetting, dialog, call, raised>>
    ELSE /\ ClearPressData
         /\ UNCHANGED <<worldVars, uniqueID, undostack, pushes, mode, modeParam, checked,
                        command, mouseOverNode, selection, snapSetting, dialog, call, raised>>

\* the positions, anchors and breakpoints of the captured items, as they are
CurrentData ==
    [tag |-> "data",
     nodes |-> [n \in DOMAIN mousePressData.nodes |->
                   [anchors |-> nodeObjs[n].anchors, pos |-> nodeObjs[n].pos]],
     edges |-> [e \in DOMAIN mousePressData.edges |-> edgeObjs[e].breakpoints]]

\* self.setMode(DiagramMode.Idle) at the end of a move, a mutation: the
\* mode is left as it is
EndNodeMove_Stays == UNCHANGED <<mode, modeParam, checked>>

\* self.setMode(DiagramMode.Idle) at the end of a move
EndNodeMove == setMode("Idle", "None", checked)

\* the NodeMove branch: one CommandNodeMove for the whole move
ReleaseNodeMove ==
    IF mousePressData.tag = "None"
    THEN \* subscripting None raises TypeError
         /\ raised' = TRUE
         /\ UNCHANGED <<worldVars, uniqueID, undostack, pushes, mode, modeParam, checked,
                        command, mouseOverNode, pressVars, selection, snapSetting, dialog, call>>
    ELSE LET cmd == [kind |-> "NodeMove", pos1 |-> mousePressData, pos2 |-> CurrentData]
         IN /\ pushes < MaxPush
            /\ SetWorld(CmdRedo(World, cmd))
            /\ undostack' = Push(undostack, cmd)
            /\ pushes' = pushes + 1
            /\ EndNodeMove
            /\ ClearPressData
            /\ UNCHANGED <<uniqueID, command, mouseOverNode, selection, snapSetting, dialog, call, raised>>

\* any other release, a mutation: a move command is pushed as in NodeMove
ReleaseOther_AsMove == ReleaseNodeMove

\* any other release: only the press data is reset
ReleaseOther ==
    /\ ClearPressData
    /\ UNCHANGED <<worldVars, uniqueID, undostack, pushes, mode, modeParam, checked,
                   command, mouseOverNode, selection, snapSetting, dialog, call, raised>>

MouseReleaseEvent(b, p, ctrl) ==
    /\ ~raised
    /\ b \in buttons
    /\ buttons' = buttons \ {b}
    /\ IF b = LeftButton
       THEN CASE mode = "EdgeInsert" -> ReleaseEdgeInsert(p, ctrl)
              [] mode = "NodeMove" -> ReleaseNodeMove
              [] OTHER -> ReleaseOther
       ELSE ReleaseOther
    /\ gesture' = IF gesture.ph = "pressed" THEN EndGesture ELSE NoGesture

(***************************************************************************)
(* The main window: palette, keyboard, undo and redo, settings.            *)
(***************************************************************************)
\* handleToolBoxButtonClicked: the click toggles the button, the selection is
\* cleared, the other buttons are unchecked and the scene mode follows. The
\* pointer clicks the palette only while it holds no button over the scene.
PaletteClick(item) ==
    LET chk == IF item \in checked THEN {} ELSE {item}
    IN /\ ~raised
       /\ buttons = {}
       /\ selection' = {}
       /\ IF item \notin chk
          THEN setMode("Idle", "None", chk)
          ELSE IF item \in PaletteNodes
               THEN setMode("NodeInsert", item, chk)
               ELSE setMode("EdgeInsert", item, chk)
       /\ gesture' = NoGesture
       /\ UNCHANGED <<worldVars, uniqueID, undostack, pushes, command, mouseOverNode,
                      pressVars, snapSetting, dialog, call, buttons, raised>>

\* keyReleaseEvent of the main window for the Control key
KeyReleaseControl ==
    /\ ~raised
    /\ setMode("Idle", "None", checked)
    /\ gesture' = IF mode = "Idle" /\ modeParam = "None" THEN gesture ELSE NoGesture
    /\ UNCHANGED <<worldVars, uniqueID, undostack, pushes, command, mouseOverNode,
                   pressVars, selection, snapSetting, dialog, call, buttons, raised>>

\* items removed from the scene lose their selected state
LiveSelection(W, sel) == {n \in sel : NodeRef(n) \in W.sceneItems}

\* QUndoStack.undo, triggered while no primary-button gesture is in progress
Undo ==
    /\ ~raised
    /\ buttons = {}
    /\ undostack.index > 0
    /\ LET W == CmdUndo(World, undostack.cmds[undostack.index])
       IN /\ SetWorld(W)
          /\ selection' = LiveSelection(W, selection)
    /\ undostack' = [undostack EXCEPT !.index = @ - 1]
    /\ gesture' = NoGesture
    /\ UNCHANGED <<uniqueID, pushes, mode, modeParam, checked, command, mouseOverNode,
                   pressVars, snapSetting, dialog, call, buttons, raised>>

\* QUndoStack.redo, triggered while no primary-button gesture is in progress
Redo ==
    /\ ~raised
    /\ buttons = {}
    /\ undostack.index < Len(undostack.cmds)
    /\ LET W == CmdRedo(World, undostack.cmds[undostack.index + 1])
       IN /\ SetWorld(W)
          /\ selection' = LiveSelection(W, selection)
    /\ undostack' = [undostack EXCEPT !.index = @ + 1]
    /\ gesture' = NoGesture
    /\ UNCHANGED <<uniqueID, pushes, mode, modeParam, checked, command, mouseOverNode,
                   pressVars, snapSetting, dialog, call, buttons, raised>>

Next ==
    \/ \E p \in EventPoints, ctrl \in BOOLEAN : MousePressEvent(LeftButton, p, ctrl)
    \/ \E p \in EventPoints : MouseMoveEvent(p)
    \/ \E p \in EventPoints, ctrl \in BOOLEAN : MouseReleaseEvent(LeftButton, p, ctrl)
    \/ \E item \in PaletteItems : PaletteClick(item)
    \/ KeyReleaseControl
    \/ Undo
    \/ Redo

Spec == Init /\ [][Next]_vars

(***************************************************************************)
(* Editing commands of the main window: label edit, removal of the         *)
(* selection, composition of the functional axiom.                         *)
(***************************************************************************)
\* the texts typed into a label
EditTexts == {"concept", "label1"}

\* a sequence of the members of a set of handles, in increasing order
RECURSIVE AsSeq(_)
AsSeq(set) ==
    IF set = {} THEN <<>>
    ELSE LET m == CHOOSE x \in set : \A y \in set : x <= y
         IN <<m>> \o AsSeq(set \ {m})

\* the label of a node of the scene is edited: a CommandNodeLabelEdit that
\* holds the old and the new text is pushed; max bounds the commands pushed
EditLabelUpTo(n, text, max) ==
    LET cmd == [kind |-> "LabelEdit", node |-> n, undo |-> nodeObjs[n].label, redo |-> text]
    IN /\ ~raised
       /\ buttons = {}
       /\ pushes < max
       /\ NodeRef(n) \in sceneItems
       /\ LabelEditable(nodeObjs[n].type)
       /\ nodeObjs[n].label # text
       /\ SetWorld(CmdRedo(World, cmd))
       /\ undostack' = Push(undostack, cmd)
       /\ pushes' = pushes + 1
       /\ gesture' = NoGesture
       /\ UNCHANGED <<uniqueID, mode, modeParam, checked, command, mouseOverNode,
                      pressVars, selection, snapSetting, dialog, call, buttons, raised>>

EditLabel(n, text) == EditLabelUpTo(n, text, MaxEdits)

\* the edges attached to the nodes
IncidentEdges(nodes) ==
    {e \in 1..Len(edgeObjs) : \E n \in nodes : InSeq(nodeObjs[n].edges, e)}

\* the selected nodes are deleted together with the edges attached to them
RemoveSelected ==
    LET nodes == selectedNodes(World, selection)
        cmd == [kind |-> "ItemsRemove", nodes |-> AsSeq(nodes),
                edges |-> AsSeq(IncidentEdges(nodes))]
    IN /\ ~raised
       /\ buttons = {}
       /\ pushes < MaxEdits
       /\ nodes # {}
       /\ SetWorld(CmdRedo(World, cmd))
       /\ selection' = LiveSelection(CmdRedo(World, cmd), selection)
       /\ undostack' = Push(undostack, cmd)
       /\ pushes' = pushes + 1
       /\ gesture' = NoGesture
       /\ UNCHANGED <<uniqueID, mode, modeParam, checked, command, mouseOverNode,
                      pressVars, snapSetting, dialog, call, buttons, raised>>

\* where the node of the functional axiom is put, relative to its source
ComposeOffset == <<120, 0>>

\* functionalAxiomComposition on the single selected Role node, and the
\* command that adds the result: a restriction node and an Input edge from
\* the source to it, each with the next id of its kind
ComposeFunctional(source) ==
    LET hn == Len(nodeObjs) + 1
        he == Len(edgeObjs) + 1
        node1 == NewNode("DomainRestrictionNode", NextId("n"),
                         PAdd(nodeObjs[source].pos, ComposeOffset))
        edge1 == NewEdge("InputEdge", NextId("e"), source, hn, <<>>)
        W1 == [World EXCEPT !.nodeObjs = Append(@, node1), !.edgeObjs = Append(@, edge1)]
        cmd == [kind |-> "Compose", axiom |-> "functional", source |-> source,
                nodes |-> <<hn>>, edges |-> <<he>>]
    IN /\ ~raised
       /\ "functional" \notin nodeObjs[source].flags
       /\ buttons = {}
       /\ pushes < MaxEdits
       /\ Len(nodeObjs) < MaxNodes
       /\ Len(edgeObjs) < MaxEdges
       /\ selectedNodes(World, selection) = {source}
       /\ nodeObjs[source].type = "RoleNode"
       /\ uniqueID' = [uniqueID EXCEPT !["n"] = @ + 1, !["e"] = @ + 1]
       /\ SetWorld(CmdRedo(W1, cmd))
       /\ undostack' = Push(undostack, cmd)
       /\ pushes' = pushes + 1
       /\ gesture' = NoGesture
       /\ UNCHANGED <<mode, modeParam, checked, command, mouseOverNode, pressVars,
                      selection, snapSetting, dialog, call, buttons, raised>>

\* the editing specification: insertion of nodes and edges with the
\* pointer, label edit, removal, composition, undo and redo
NextEdit ==
    \/ \E p \in EventPoints, ctrl \in BOOLEAN : MousePressEvent(LeftButton, p, ctrl)
    \/ \E p \in EventPoints, ctrl \in BOOLEAN : MouseReleaseEvent(LeftButton, p, ctrl)
    \/ \E item \in PaletteItems : PaletteClick(item)
    \/ \E n \in 1..Len(nodeObjs), text \in EditTexts : EditLabel(n, text)
    \/ RemoveSelected
    \/ \E n \in 1..Len(nodeObjs) : ComposeFunctional(n)
    \/ Undo
    \/ Redo

SpecEdit == Init /\ [][NextEdit]_vars

(***************************************************************************)
(* A document with an edge that has a breakpoint and an anchor, for the    *)
(* move of nodes.                                                          *)
(***************************************************************************)
\* the nodes of the document: both carry the edge, the first with an anchor
MoveNodes ==
    <<[NewNode("ConceptNode", <<"n", 0>>, <<10, 0>>) EXCEPT
          !.edges = <<1>>, !.anchors = Put(EmptyDict, 1, <<10, 10>>)],
      [NewNode("ConceptNode", <<"n", 1>>, <<30, 10>>) EXCEPT !.edges = <<1>>]>>

\* the edge of the document, with one breakpoint
MoveEdges == <<NewEdge("InclusionEdge", <<"e", 0>>, 1, 2, <<(<<20, 10>>)>>)>>

\* the document opened from a file: nodes, then edges, added with addItem
InitMoveDoc ==
    LET W0 == [nodeObjs |-> MoveNodes, edgeObjs |-> MoveEdges, sceneItems |-> {},
               nodesById |-> EmptyDict, edgesById |-> EmptyDict,
               nodesByLabel |-> EmptyDict]
        W == addItem(addItem(addItem(W0, NodeRef(1)), NodeRef(2)), EdgeRef(1))
    IN /\ nodeObjs = W.nodeObjs
       /\ edgeObjs = W.edgeObjs
       /\ sceneItems = W.sceneItems
       /\ nodesById = W.nodesById
       /\ edgesById = W.edgesById
       /\ nodesByLabel = W.nodesByLabel
       /\ uniqueID = [prefix \in {"n", "e"} |->
                         IF prefix = "n" THEN Len(MoveNodes) ELSE Len(MoveEdges)]

InitMove == InitScene /\ InitMoveDoc

\* selection and move of nodes with the pointer, undo and redo
NextMove ==
    \/ \E p \in EventPoints, ctrl \in BOOLEAN : MousePressEvent(LeftButton, p, ctrl)
    \/ \E p \in EventPoints : MouseMoveEvent(p)
    \/ \E p \in EventPoints, ctrl \in BOOLEAN : MouseReleaseEvent(LeftButton, p, ctrl)
    \/ Undo
    \/ Redo

SpecMove == InitMove /\ [][NextMove]_vars

(***************************************************************************)
(* The pointer with two buttons: the handlers test the primary button, but *)
(* they are called for every button.                                       *)
(***************************************************************************)
RightButton == "Right"

MouseButtons == {LeftButton, RightButton}

\* presses, moves and releases of both buttons in any order, in every mode
\* the palette can set
NextButtons ==
    \/ \E b \in MouseButtons, p \in EventPoints, ctrl \in BOOLEAN : MousePressEvent(b, p, ctrl)
    \/ \E p \in EventPoints : MouseMoveEvent(p)
    \/ \E b \in MouseButtons, p \in EventPoints, ctrl \in BOOLEAN :
          MouseReleaseEvent(b, p, ctrl)
    \/ \E item \in PaletteItems : PaletteClick(item)

SpecButtons == Init /\ [][NextButtons]_vars

(***************************************************************************)
(* A document with a Role node and an Attribute node, for the calls of the *)
(* axiom composers.                                                        *)
(***************************************************************************)
\* an item comes to lie on the probe rectangle centred at a point, before
\* any composer is called
AddObstacle(p, max) ==
    /\ call.fn = "none"
    /\ BagCardinality(call.occ) < max
    /\ ProbeCount(call.occ, p) < MaxOcc
    /\ call' = [call EXCEPT !.occ = @ (+) SetToBag({p})]
    /\ UNCHANGED <<worldVars, uniqueID, undostack, mode, modeParam, command,
                   mouseOverNode, pressVars, selection, checked, snapSetting, dialog,
                   buttons, raised, pushes, gesture>>

\* a call of a composer, a mutation: the items are inserted into the scene
CallComposer_Inserts(fn, source) ==
    /\ call.n < MaxCalls
    /\ NodeRef(source) \in sceneItems
    /\ Admissible(fn, nodeObjs[source].type)
    /\ \E items \in {Composition(fn, World, uniqueID, source, call.occ)} :
       \E W1 \in {Constructed(World, items)} :
          /\ SetWorld(AttachEdges(addNodes(W1, LastIndices(W1.nodeObjs, Len(items.nodes))),
                                  LastIndices(W1.edgeObjs, Len(items.edges))))
          /\ uniqueID' = [uniqueID EXCEPT !["n"] = @ + Len(items.nodes),
                                          !["e"] = @ + Len(items.edges)]
          /\ call' = [call EXCEPT !.fn = fn, !.source = source, !.n = @ + 1,
                                  !.nodes = LastIndices(W1.nodeObjs, Len(items.nodes)),
                                  !.edges = LastIndices(W1.edgeObjs, Len(items.edges))]
    /\ UNCHANGED <<undostack, mode, modeParam, command, mouseOverNode, pressVars,
                   selection, checked, snapSetting, dialog, buttons, raised, pushes, gesture>>

\* a call of a composer on a node of the scene: the objects are constructed,
\* each with the next id of its kind, and returned
CallComposer(fn, source) ==
    /\ call.n < MaxCalls
    /\ NodeRef(source) \in sceneItems
    /\ Admissible(fn, nodeObjs[source].type)
    /\ \E items \in {Composition(fn, World, uniqueID, source, call.occ)} :
       \E W1 \in {Constructed(World, items)} :
          /\ SetWorld(W1)
          /\ uniqueID' = [uniqueID EXCEPT !["n"] = @ + Len(items.nodes),
                                          !["e"] = @ + Len(items.edges)]
          /\ call' = [call EXCEPT !.fn = fn, !.source = source, !.n = @ + 1,
                                  !.nodes = LastIndices(W1.nodeObjs, Len(items.nodes)),
                                  !.edges = LastIndices(W1.edgeObjs, Len(items.edges))]
    /\ UNCHANGED <<undostack, mode, modeParam, command, mouseOverNode, pressVars,
                   selection, checked, snapSetting, dialog, buttons, raised, pushes, gesture>>

\* the nodes of the document
ComposerNodes ==
    <<NewNode("RoleNode", <<"n", 0>>, <<0, 0>>),
      NewNode("AttributeNode", <<"n", 1>>, <<40, 20>>)>>

InitComposerDoc ==
    LET W0 == [nodeObjs |-> ComposerNodes, edgeObjs |-> <<>>, sceneItems |-> {},
               nodesById |-> EmptyDict, edgesById |-> EmptyDict,
               nodesByLabel |-> EmptyDict]
        W == addItem(addItem(W0, NodeRef(1)), NodeRef(2))
    IN /\ nodeObjs = W.nodeObjs
       /\ edgeObjs = W.edgeObjs
       /\ sceneItems = W.sceneItems
       /\ nodesById = W.nodesById
       /\ edgesById = W.edgesById
       /\ nodesByLabel = W.nodesByLabel
       /\ uniqueID = [prefix \in {"n", "e"} |-> IF prefix = "n" THEN Len(ComposerNodes) ELSE 0]

InitComposer == InitScene /\ InitComposerDoc

\* items come to lie around the two nodes, then a composer is called
NextComposer ==
    \/ \E p \in FirstPoints(World, 1) \cup FirstPoints(World, 2) : AddObstacle(p, MaxObstacles)
    \/ \E fn \in Composers, source \in 1..Len(nodeObjs) : CallComposer(fn, source)

SpecComposer == InitComposer /\ [][NextComposer]_vars

\* items come to lie around the Attribute node and around the places of the
\* first node, then the property range is composed
NextRange ==
    \/ \E p \in FirstPoints(World, 2) \cup SecondPoints(World, 2) :
          AddObstacle(p, MaxObstacles)
    \/ CallComposer("propertyRange", 2)

SpecRange == InitComposer /\ [][NextRange]_vars

(***************************************************************************)
(* The compose-axiom actions of the main window on the document with a     *)
(* Role node: each toggles one axiom of the single selected Role node.     *)
(***************************************************************************)
\* the position in the applied commands of the last command that composed
\* the axiom on the source, None when there is none
RECURSIVE LastCompose(_, _, _, _)
LastCompose(cmds, i, axiom, source) ==
    IF i = 0 THEN None
    ELSE IF cmds[i].kind = "Compose" /\ cmds[i].axiom = axiom /\ cmds[i].source = source
         THEN i
         ELSE LastCompose(cmds, i - 1, axiom, source)

\* what is observed of a trigger of a compose-axiom action
ToggleGesture(ph, axiom, source) ==
    [ph |-> ph, axiom |-> axiom, source |-> source, W0 |-> World,
     stack0 |-> undostack,
     prev |-> IF gesture.ph = "composed" THEN [gesture EXCEPT !.prev = NoGesture]
              ELSE NoGesture]

\* the action is triggered while the flag is off: the composer is called and
\* a command that adds its items and sets the flag is pushed
ComposeOn(axiom, source) ==
    /\ axiom \notin nodeObjs[source].flags
    /\ \E items \in {Composition(axiom, World, uniqueID, source, call.occ)} :
       \E W1 \in {Constructed(World, items)} :
       \E cmd \in {[kind |-> "Compose", axiom |-> axiom, source |-> source,
                    nodes |-> LastIndices(W1.nodeObjs, Len(items.nodes)),
                    edges |-> LastIndices(W1.edgeObjs, Len(items.edges))]} :
          /\ SetWorld(CmdRedo(W1, cmd))
          /\ uniqueID' = [uniqueID EXCEPT !["n"] = @ + Len(items.nodes),
                                          !["e"] = @ + Len(items.edges)]
          /\ undostack' = Push(undostack, cmd)
    /\ gesture' = ToggleGesture("composed", axiom, source)

\* the action is triggered while the flag is on: a command that removes the
\* items tracked by the composing command and clears the flag is pushed
ComposeOff(axiom, source) ==
    /\ axiom \in nodeObjs[source].flags
    /\ LastCompose(undostack.cmds, undostack.index, axiom, source) # None
    /\ \E c \in {undostack.cmds[LastCompose(undostack.cmds, undostack.index, axiom, source)]} :
       \E cmd \in {[kind |-> "Decompose", axiom |-> axiom, source |-> source,
                    nodes |-> c.nodes, edges |-> c.edges]} :
          /\ SetWorld(CmdRedo(World, cmd))
          /\ undostack' = Push(undostack, cmd)
    /\ uniqueID' = uniqueID
    /\ gesture' = ToggleGesture("decomposed", axiom, source)

\* a compose-axiom action of the main window is triggered
ComposeAxiom(axiom, source) ==
    /\ ~raised
    /\ buttons = {}
    /\ pushes < MaxComposes
    /\ selectedNodes(World, selection) = {source}
    /\ nodeObjs[source].type = "RoleNode"
    /\ (ComposeOn(axiom, source) \/ ComposeOff(axiom, source))
    /\ pushes' = pushes + 1
    /\ UNCHANGED <<mode, modeParam, checked, command, mouseOverNode, pressVars,
                   selection, snapSetting, dialog, call, buttons, raised>>

\* QGraphicsItem.setSelected(True) on a node of the scene
SetSelected(n) ==
    /\ ~raised
    /\ buttons = {}
    /\ NodeRef(n) \in sceneItems
    /\ n \notin selection
    /\ selection' = selection \cup {n}
    /\ gesture' = NoGesture
    /\ UNCHANGED <<worldVars, uniqueID, undostack, mode, modeParam, checked, command,
                   mouseOverNode, pressVars, snapSetting, dialog, call, buttons, raised, pushes>>

\* a node is selected, the axioms of the selected Role node are toggled,
\* undo and redo
NextCompose ==
    \/ \E n \in 1..Len(nodeObjs) : SetSelected(n)
    \/ \E axiom \in RoleAxioms, source \in 1..Len(nodeObjs) : ComposeAxiom(axiom, source)
    \/ Undo
    \/ Redo

SpecCompose == InitComposer /\ [][NextCompose]_vars

(***************************************************************************)
(* Every class of command: the pointer, the editing commands of the main   *)
(* window, the compose-axiom actions and the toggle of a flag.             *)
(***************************************************************************)
\* the flags the toggle actions of the main window set
ToggledFlags == {"functional"}

\* a toggle action of the main window on the single selected node: a
\* command that sets the flag to the opposite value is pushed
ToggleFlag(n, flag) ==
    LET cmd == [kind |-> "NodeFlag", node |-> n, flag |-> flag,
                undo |-> flag \in nodeObjs[n].flags, redo |-> flag \notin nodeObjs[n].flags]
    IN /\ ~raised
       /\ buttons = {}
       /\ pushes < MaxEdits
       /\ selectedNodes(World, selection) = {n}
       /\ nodeObjs[n].type \in {"RoleNode", "AttributeNode"}
       /\ SetWorld(CmdRedo(World, cmd))
       /\ undostack' = Push(undostack, cmd)
       /\ pushes' = pushes + 1
       /\ gesture' = NoGesture
       /\ UNCHANGED <<uniqueID, mode, modeParam, checked, command, mouseOverNode,
                      pressVars, selection, snapSetting, dialog, call, buttons, raised>>

NextCommands ==
    \/ \E p \in EventPoints, ctrl \in BOOLEAN : MousePressEvent(LeftButton, p, ctrl)
    \/ \E p \in EventPoints : MouseMoveEvent(p)
    \/ \E p \in EventPoints, ctrl \in BOOLEAN : MouseReleaseEvent(LeftButton, p, ctrl)
    \/ \E item \in PaletteItems : PaletteClick(item)
    \/ \E n \in 1..Len(nodeObjs), text \in EditTexts : EditLabel(n, text)
    \/ RemoveSelected
    \/ \E axiom \in RoleAxioms, source \in 1..Len(nodeObjs) : ComposeAxiom(axiom, source)
    \/ \E n \in 1..Len(nodeObjs), flag \in ToggledFlags : ToggleFlag(n, flag)
    \/ Undo
    \/ Redo

SpecCommands == Init /\ [][NextCommands]_vars

(***************************************************************************)
(* The node information panel: the label field and the name field of a     *)
(* predicate node (EditableNodeInfo), on a document where nodes share a    *)
(* label.                                                                  *)
(***************************************************************************)
\* the two line edits connected to editingFinished
InfoFields == {"textField", "nameField"}

\* what the user leaves in a field
FieldValues == {"", "concept", "label1"}

\* isEmpty: the text is blank
isEmpty(value) == value = ""

\* diagram.project.predicates(type, text): the nodes of the scene of the
\* given class that carry the given text, by handle
predicates(W, type, text) ==
    {n \in 1..Len(W.nodeObjs) :
        /\ NodeRef(n) \in W.sceneItems
        /\ W.nodeObjs[n].type = type
        /\ W.nodeObjs[n].label = text}

\* CommandNodeLabelChange(diagram, node, undo, redo)
CommandNodeLabelChange(W, n, data) ==
    [kind |-> "LabelEdit", node |-> n, undo |-> W.nodeObjs[n].label, redo |-> data]

\* the collection built by the loop over the predicates, by handle
RECURSIVE LabelChanges(_, _, _)
LabelChanges(W, nodes, data) ==
    IF nodes = <<>> THEN <<>>
    ELSE <<CommandNodeLabelChange(W, Head(nodes), data)>> \o LabelChanges(W, Tail(nodes), data)

\* the command of editingFinished, a mutation: the name field changes the
\* label of its node only
RenameCommand_NodeOnly(W, sender, n, data) == CommandNodeLabelChange(W, n, data)

\* the command of editingFinished, a mutation: the label field refactors too
RenameCommand_AlwaysRefactor(W, sender, n, data) ==
    [kind |-> "Refactor",
     commands |-> LabelChanges(W, AsSeq(predicates(W, W.nodeObjs[n].type, W.nodeObjs[n].label)),
                               data)]

\* the command editingFinished pushes: a refactor of every predicate with the
\* class and text of the node when the sender is the name field, a change of
\* the label of the node otherwise
RenameCommand(W, sender, n, data) ==
    IF sender = "nameField"
    THEN [kind |-> "Refactor",
          commands |-> LabelChanges(W, AsSeq(predicates(W, W.nodeObjs[n].type,
                                                        W.nodeObjs[n].label)), data)]
    ELSE CommandNodeLabelChange(W, n, data)

\* what is observed of a call of editingFinished
EditGesture(sender, n, data) ==
    [ph |-> "edited", sender |-> sender, node |-> n, data |-> data, W0 |-> World,
     stack0 |-> undostack, pushes0 |-> pushes]

\* EditableNodeInfo.editingFinished, the panel showing node n: an empty value
\* stands for the template of the label; nothing is pushed when the text is
\* the one the node has
editingFinished(sender, n, value) ==
    LET data == IF isEmpty(value) THEN DefaultLabel(nodeObjs[n].type) ELSE value
    IN /\ ~raised
       /\ buttons = {}
       /\ pushes < MaxRenames
       /\ NodeRef(n) \in sceneItems
       /\ LabelEditable(nodeObjs[n].type)
       /\ IF data # nodeObjs[n].label
          THEN \E cmd \in {RenameCommand(World, sender, n, data)} :
                  /\ SetWorld(CmdRedo(World, cmd))
                  /\ undostack' = Push(undostack, cmd)
                  /\ pushes' = pushes + 1
          ELSE UNCHANGED <<worldVars, undostack, pushes>>
       /\ gesture' = EditGesture(sender, n, data)
       /\ UNCHANGED <<uniqueID, mode, modeParam, checked, command, mouseOverNode,
                      pressVars, selection, snapSetting, dialog, call, buttons, raised>>

\* the nodes of the document: two concepts with one label, a role
RenameNodes ==
    <<NewNode("ConceptNode", <<"n", 0>>, <<0, 0>>),
      NewNode("ConceptNode", <<"n", 1>>, <<30, 10>>),
      NewNode("RoleNode", <<"n", 2>>, <<0, 40>>)>>

InitRenameDoc ==
    LET W0 == [nodeObjs |-> RenameNodes, edgeObjs |-> <<>>, sceneItems |-> {},
               nodesById |-> EmptyDict, edgesById |-> EmptyDict,
               nodesByLabel |-> EmptyDict]
        W == addItem(addItem(addItem(W0, NodeRef(1)), NodeRef(2)), NodeRef(3))
    IN /\ nodeObjs = W.nodeObjs
       /\ edgeObjs = W.edgeObjs
       /\ sceneItems = W.sceneItems
       /\ nodesById = W.nodesById
       /\ edgesById = W.edgesById
       /\ nodesByLabel = W.nodesByLabel
       /\ uniqueID = [prefix \in {"n", "e"} |-> IF prefix = "n" THEN Len(RenameNodes) ELSE 0]

InitRename == InitScene /\ InitRenameDoc

\* the fields of the panel are edited, undo and redo
NextRename ==
    \/ \E sender \in InfoFields, n \in 1..Len(nodeObjs), value \in FieldValues :
          editingFinished(sender, n, value)
    \/ Undo
    \/ Redo

SpecRename == InitRename /\ [][NextRename]_vars

(***************************************************************************)
(* The node information panel: the checkboxes of the axiom properties of a *)
(* Role node (RoleNodeInfo) and of an Attribute node (AttributeNodeInfo).  *)
(***************************************************************************)
\* the 'attribute' property of the checkboxes of a panel, by class of node
PanelAttributes(type) ==
    CASE type = "RoleNode" ->
            {"asymmetric", "functional", "inverseFunctional", "irreflexive",
             "reflexive", "symmetric", "transitive"}
      [] type = "AttributeNode" -> {"functional"}
      [] OTHER -> {}

\* getattr(node, attribute)
getattr(W, n, attribute) == attribute \in W.nodeObjs[n].flags

\* the data of the command of flagChanged, a mutation: the value to restore
\* is taken to be the opposite of the checkbox
SetPropertyData_UndoOpposite(W, n, attribute, isChecked) ==
    [kind |-> "NodeFlag", node |-> n, flag |-> attribute,
     undo |-> ~isChecked, redo |-> isChecked]

\* CommandSetProperty(diagram, node, data, name) with data =
\* {'attribute': attribute, 'undo': getattr(node, attribute), 'redo': checked}
SetPropertyData(W, n, attribute, isChecked) ==
    [kind |-> "NodeFlag", node |-> n, flag |-> attribute,
     undo |-> getattr(W, n, attribute), redo |-> isChecked]

\* what is observed of a call of flagChanged
FlagGesture(n, attribute, isChecked) ==
    [ph |-> "flag", node |-> n, attribute |-> attribute, checked |-> isChecked,
     W0 |-> World, stack0 |-> undostack]

\* RoleNodeInfo.flagChanged / AttributeNodeInfo.flagChanged, the panel
\* showing node n: the checkbox of the attribute was clicked and now holds
\* the value isChecked
flagChanged(n, attribute, isChecked) ==
    /\ ~raised
    /\ buttons = {}
    /\ pushes < MaxToggles
    /\ NodeRef(n) \in sceneItems
    /\ attribute \in PanelAttributes(nodeObjs[n].type)
    /\ \E cmd \in {SetPropertyData(World, n, attribute, isChecked)} :
          /\ SetWorld(CmdRedo(World, cmd))
          /\ undostack' = Push(undostack, cmd)
    /\ pushes' = pushes + 1
    /\ gesture' = FlagGesture(n, attribute, isChecked)
    /\ UNCHANGED <<uniqueID, mode, modeParam, checked, command, mouseOverNode,
                   pressVars, selection, snapSetting, dialog, call, buttons, raised>>

\* the checkboxes are clicked, undo and redo
NextFlags ==
    \/ \E n \in 1..Len(nodeObjs), attribute \in PanelAttributes("RoleNode"), value \in BOOLEAN :
          flagChanged(n, attribute, value)
    \/ Undo
    \/ Redo

SpecFlags == InitComposer /\ [][NextFlags]_vars

(***************************************************************************)
(* Opening a document: MainWindow.getSceneFromGrapholFile adds every item  *)
(* of the file with addItem and makes its id known to the id generator.    *)
(***************************************************************************)
\* the largest number in an id of a file
MaxFileId == 3

\* the largest number of node entries of a file
MaxFileNodes == 2

\* the largest number of calls of uniqueID.next after the load
MaxNexts == 2

\* the ids a file can carry for a prefix: they come from the file, in no
\* order and possibly repeated
FileIds(prefix) == {<<prefix, k>> : k \in 0..MaxFileId}

\* the files: the ids of the node entries in document order, and the id of
\* the edge entry when the file has one (an edge needs a node to join)
Files ==
    {[nodes |-> ns, edges |-> es] :
        ns \in UNION {[1..l -> FileIds("n")] : l \in 0..MaxFileNodes},
        es \in {<<>>} \cup {<<id>> : id \in FileIds("e")}}

\* where the node entries of a file lie
FilePos(i) == <<30 * (i - 1), 10 * (i - 1)>>

\* UniqueID.update, a mutation: the counter is advanced to the number of
\* the id and not past it
update_Reaches(u, id) == [u EXCEPT ![id[1]] = IF @ > id[2] THEN @ ELSE id[2]]

\* UniqueID.update: the counter of the id's prefix is advanced past the
\* number of the id when it is not already past it
update(u, id) == [u EXCEPT ![id[1]] = IF @ > id[2] THEN @ ELSE id[2] + 1]

\* the loop over the node entries from entry i on: fromGraphol builds the
\* node with the id of the entry, addItem indexes it, update observes the id
RECURSIVE LoadNodes(_, _, _)
LoadNodes(L, ids, i) ==
    IF i > Len(ids) THEN L
    ELSE LET h == Len(L.W.nodeObjs) + 1
             node == NewNode("ConceptNode", ids[i], FilePos(i))
             W1 == [L.W EXCEPT !.nodeObjs = Append(@, node)]
         IN LoadNodes([W |-> addItem(W1, NodeRef(h)),
                       uniqueID |-> update(L.uniqueID, ids[i])], ids, i + 1)

\* the loop over the edge entries from entry i on: the edge joins the first
\* and the last node of the file
RECURSIVE LoadEdges(_, _, _)
LoadEdges(L, ids, i) ==
    IF i > Len(ids) THEN L
    ELSE LET h == Len(L.W.edgeObjs) + 1
             edge == NewEdge("InclusionEdge", ids[i], 1, Len(L.W.nodeObjs), <<>>)
             W1 == [L.W EXCEPT !.edgeObjs = Append(@, edge)]
             W2 == nodeAddEdge(nodeAddEdge(W1, 1, h), Len(L.W.nodeObjs), h)
         IN LoadEdges([W |-> addItem(W2, EdgeRef(h)),
                       uniqueID |-> update(L.uniqueID, ids[i])], ids, i + 1)

\* the ids of a file
Observed(file) ==
    {file.nodes[i] : i \in 1..Len(file.nodes)} \cup {file.edges[i] : i \in 1..Len(file.edges)}

\* MainWindow.getSceneFromGrapholFile: the nodes, then the edges, into the
\* scene that getScene has just made
getSceneFromGrapholFile(file) ==
    /\ gesture = NoGesture
    /\ file.edges # <<>> => file.nodes # <<>>
    /\ \E L \in {LoadEdges(LoadNodes([W |-> World, uniqueID |-> uniqueID],
                                     file.nodes, 1), file.edges, 1)} :
          /\ SetWorld(L.W)
          /\ uniqueID' = L.uniqueID
    /\ gesture' = [ph |-> "loaded", file |-> file, observed |-> Observed(file),
                   returned |-> {}, n |-> 0, added |-> <<>>]
    /\ UNCHANGED <<undostack, pushes, mode, modeParam, checked, command, mouseOverNode,
                   pressVars, selection, snapSetting, dialog, call, buttons, raised>>

\* a later call of self.uniqueID.next(prefix) by a handler that makes an
\* item: the id it gets is recorded
uniqueIDnext(prefix) ==
    /\ gesture.ph \in {"loaded", "next"}
    /\ gesture.n < MaxNexts
    /\ uniqueID' = NextCounters(prefix)
    /\ gesture' = [gesture EXCEPT !.ph = "next", !.returned = @ \cup {NextId(prefix)},
                                  !.n = @ + 1]
    /\ UNCHANGED <<worldVars, undostack, pushes, mode, modeParam, checked, command,
                   mouseOverNode, pressVars, selection, snapSetting, dialog, call, buttons, raised>>

\* the largest number of further calls of addItem
MaxAdds == 2

\* every item ever constructed
HeapItems == {NodeRef(h) : h \in 1..Len(nodeObjs)} \cup {EdgeRef(h) : h \in 1..Len(edgeObjs)}

\* a further call of scene.addItem(item) with an item of the document: the
\* item may be in the scene already, and another item may hold its id
addItemCall(it) ==
    /\ gesture.ph \in {"loaded", "next"}
    /\ Len(gesture.added) < MaxAdds
    /\ SetWorld(addItem(World, it))
    /\ gesture' = [gesture EXCEPT !.added = Append(@, it)]
    /\ UNCHANGED <<uniqueID, undostack, pushes, mode, modeParam, checked, command,
                   mouseOverNode, pressVars, selection, snapSetting, dialog, call, buttons, raised>>

InitLoad == InitScene /\ InitEmpty

NextLoad ==
    \/ \E file \in Files : getSceneFromGrapholFile(file)
    \/ \E prefix \in {"n", "e"} : uniqueIDnext(prefix)
    \/ \E it \in HeapItems : addItemCall(it)

SpecLoad == InitLoad /\ [][NextLoad]_vars

(***************************************************************************)
(* Calls of DiagramScene.removeItem on a loaded document.                  *)
(***************************************************************************)
\* the largest number of calls of removeItem
MaxRemoves == 2

\* the items removed so far
Removed == IF gesture.ph = "removed" THEN gesture.removed ELSE <<>>

\* a call of scene.removeItem(item) with an item of the document: the item
\* may have been removed before, and another item may hold its id
removeItemCall(it) ==
    /\ gesture.ph \in {"loaded", "removed"}
    /\ Len(Removed) < MaxRemoves
    /\ SetWorld(removeItem(World, it))
    /\ gesture' = [ph |-> "removed", removed |-> Append(Removed, it)]
    /\ UNCHANGED <<uniqueID, undostack, pushes, mode, modeParam, checked, command,
                   mouseOverNode, pressVars, selection, snapSetting, dialog, call, buttons, raised>>

NextRemove ==
    \/ \E file \in Files : getSceneFromGrapholFile(file)
    \/ \E it \in HeapItems : removeItemCall(it)

SpecRemove == InitLoad /\ [][NextRemove]_vars

(***************************************************************************)
(* The 'toggle edge complete' action of the main window on a selection of  *)
(* Inclusion edges, in a document of four Concept nodes joined by four     *)
(* Inclusion edges.                                                        *)
(***************************************************************************)
\* the nodes of the document, each with the edges that end at it
CompleteNodes ==
    <<[NewNode("ConceptNode", <<"n", 0>>, <<0, 0>>) EXCEPT !.edges = <<1, 2>>],
      [NewNode("ConceptNode", <<"n", 1>>, <<40, 0>>) EXCEPT !.edges = <<1, 4>>],
      [NewNode("ConceptNode", <<"n", 2>>, <<0, 40>>) EXCEPT !.edges = <<2, 3>>],
      [NewNode("ConceptNode", <<"n", 3>>, <<40, 40>>) EXCEPT !.edges = <<3, 4>>]>>

\* the edges of the document: n0 -> n1, n0 -> n2, n2 -> n3, n3 -> n1
CompleteEdges ==
    <<NewEdge("InclusionEdge", <<"e", 0>>, 1, 2, <<>>),
      NewEdge("InclusionEdge", <<"e", 1>>, 1, 3, <<>>),
      NewEdge("InclusionEdge", <<"e", 2>>, 3, 4, <<>>),
      NewEdge("InclusionEdge", <<"e", 3>>, 4, 2, <<>>)>>

RECURSIVE AddAll(_, _)
AddAll(W, items) == IF items = <<>> THEN W ELSE AddAll(addItem(W, Head(items)), Tail(items))

\* the document, with any of its edges marked complete beforehand, nothing
\* selected and the undo stack empty
InitCompleteDoc ==
    \E marked \in SUBSET (1..Len(CompleteEdges)) :
        LET W0 == [nodeObjs |-> CompleteNodes,
                   edgeObjs |-> [e \in 1..Len(CompleteEdges) |->
                                    [CompleteEdges[e] EXCEPT !.complete = e \in marked]],
                   sceneItems |-> {}, nodesById |-> EmptyDict, edgesById |-> EmptyDict,
                   nodesByLabel |-> EmptyDict]
            W == AddAll(W0, [i \in 1..(Len(CompleteNodes) + Len(CompleteEdges)) |->
                                IF i <= Len(CompleteNodes) THEN NodeRef(i)
                                ELSE EdgeRef(i - Len(CompleteNodes))])
        IN /\ nodeObjs = W.nodeObjs
           /\ edgeObjs = W.edgeObjs
           /\ sceneItems = W.sceneItems
           /\ nodesById = W.nodesById
           /\ edgesById = W.edgesById
           /\ nodesByLabel = W.nodesByLabel
           /\ uniqueID = [prefix \in {"n", "e"} |->
                             IF prefix = "n" THEN Len(CompleteNodes) ELSE Len(CompleteEdges)]

\* the largest number of triggers of the action
MaxCompletes == 2

\* scene.selectedEdges(), restricted to the Inclusion edges
selectedInclusionEdges(W) ==
    {e \in 1..Len(W.edgeObjs) :
        /\ EdgeRef(e) \in W.sceneItems
        /\ W.edgeObjs[e].selected
        /\ W.edgeObjs[e].type = "InclusionEdge"}

\* the number of edges of the selection that are complete
CompleteCount(W, edges) == Cardinality({e \in edges : W.edgeObjs[e].complete})

\* the values the action may give to the selection: complete when fewer
\* than half of the edges are complete, not complete when more than half
\* are; with exactly half, either
CompleteTargets(W, edges) ==
    IF 2 * CompleteCount(W, edges) < Cardinality(edges) THEN {TRUE}
    ELSE IF 2 * CompleteCount(W, edges) > Cardinality(edges) THEN {FALSE}
    ELSE BOOLEAN

\* the data of the command, a mutation: every edge gets the opposite of
\* its own value
EdgeCompleteData_FlipsEach(W, edges, comp) ==
    [e \in edges |-> [from |-> W.edgeObjs[e].complete, to |-> ~W.edgeObjs[e].complete]]

\* the data of the command: for every selected edge, the value it has and
\* the common value it gets
EdgeCompleteData(W, edges, comp) ==
    [e \in edges |-> [from |-> W.edgeObjs[e].complete, to |-> comp]]

\* edge.setSelected(value)
setSelected(e, value) ==
    /\ ~raised
    /\ buttons = {}
    /\ EdgeRef(e) \in sceneItems
    /\ edgeObjs[e].selected # value
    /\ edgeObjs' = [edgeObjs EXCEPT ![e].selected = value]
    /\ gesture' = NoGesture
    /\ UNCHANGED <<nodeObjs, sceneItems, nodesById, edgesById, nodesByLabel, uniqueID,
                   undostack, pushes, mode, modeParam, checked, command, mouseOverNode,
                   pressVars, selection, snapSetting, dialog, call, buttons, raised>>

\* actionToggleEdgeComplete.trigger(): one command for the whole selection
doToggleEdgeComplete ==
    LET edges == selectedInclusionEdges(World)
    IN /\ ~raised
       /\ buttons = {}
       /\ pushes < MaxCompletes
       /\ edges # {}
       /\ \E comp \in CompleteTargets(World, edges) :
             LET cmd == [kind |-> "EdgeComplete", data |-> EdgeCompleteData(World, edges, comp)]
             IN /\ SetWorld(CmdRedo(World, cmd))
                /\ undostack' = Push(undostack, cmd)
       /\ pushes' = pushes + 1
       /\ gesture' = [ph |-> "edgeComplete", edges |-> edges,
                      count0 |-> CompleteCount(World, edges), W0 |-> World,
                      stack0 |-> undostack]
       /\ UNCHANGED <<uniqueID, mode, modeParam, checked, command, mouseOverNode,
                      pressVars, selection, snapSetting, dialog, call, buttons, raised>>

InitComplete == InitScene /\ InitCompleteDoc

NextComplete ==
    \/ \E e \in 1..Len(edgeObjs), value \in BOOLEAN : setSelected(e, value)
    \/ doToggleEdgeComplete
    \/ Undo
    \/ Redo

SpecComplete == InitComplete /\ [][NextComplete]_vars

(***************************************************************************)
(* The syntax validation dialog: the sweep of doProgress over the items of *)
(* the project, which hands control to the event loop before every item.   *)
(***************************************************************************)
\* the verdict of the profile on an edge between two nodes.  The profile is
\* an external collaborator; this one rejects an inclusion between a node
\* that stands for a value domain and a node that does not.
profileCheck(sourceType, edgeType, targetType) ==
    ~(edgeType = "InclusionEdge"
      /\ (sourceType = "ValueDomainNode") # (targetType = "ValueDomainNode"))

\* the number of edges of the validated document
SweepEdgeCount == 3

\* the classes the edges of the validated document are drawn from
SweepEdgeTypes == {"InclusionEdge", "InputEdge"}

\* the validated document: a Concept node and a ValueDomain node joined by
\* edges from the first to the second, of any of the classes
InitSweepDoc ==
    \E types \in [1..SweepEdgeCount -> SweepEdgeTypes] :
        LET edges == [e \in 1..SweepEdgeCount |-> NewEdge(types[e], <<"e", e - 1>>, 1, 2, <<>>)]
            nodes == [n \in 1..Len(LoadedNodes) |->
                         [LoadedNodes[n] EXCEPT !.edges = [e \in 1..SweepEdgeCount |-> e]]]
            W0 == [nodeObjs |-> nodes, edgeObjs |-> edges, sceneItems |-> {},
                   nodesById |-> EmptyDict, edgesById |-> EmptyDict,
                   nodesByLabel |-> EmptyDict]
            W == AddAll(W0, [i \in 1..(Len(nodes) + SweepEdgeCount) |->
                                IF i <= Len(nodes) THEN NodeRef(i) ELSE EdgeRef(i - Len(nodes))])
        IN /\ nodeObjs = W.nodeObjs
           /\ edgeObjs = W.edgeObjs
           /\ sceneItems = W.sceneItems
           /\ nodesById = W.nodesById
           /\ edgesById = W.edgesById
           /\ nodesByLabel = W.nodesByLabel
           /\ uniqueID = [prefix \in {"n", "e"} |->
                             IF prefix = "n" THEN Len(nodes) ELSE SweepEdgeCount]

\* self.items = list(project.edges()) + list(project.nodes())
SweepItems ==
    [k \in 1..(Len(edgeObjs) + Len(nodeObjs)) |->
        IF k <= Len(edgeObjs) THEN EdgeRef(k) ELSE NodeRef(k - Len(edgeObjs))]

\* SyntaxValidationDialog.close(popup): the popup is shown when asked for,
\* then the dialog is closed
close(d, popup) ==
    [d EXCEPT !.pc = "idle", !.open = FALSE, !.closed = TRUE, !.popup = @ \/ popup]

\* the head of the while loop of doProgress: with an item left the progress
\* bar is set and QApplication.processEvents() is entered; with none left
\* and no message, the dialog is closed with the popup
LoopHead(d) ==
    IF d.i < Len(SweepItems) THEN [d EXCEPT !.pc = "events"] ELSE close(d, TRUE)

\* the body of the while loop after processEvents has returned: an edge is
\* passed to profile.check, and an invalid one ends the loop with a message
\* that doWarning shows together with the buttons; otherwise the loop goes
\* on with the next item
LoopBody(d) ==
    LET item == SweepItems[d.i + 1]
    IN IF isEdge(item)
       THEN LET edge == edgeObjs[item[2]]
                valid == profileCheck(nodeObjs[edge.source].type, edge.type,
                                      nodeObjs[edge.target].type)
            IN IF valid
               THEN LoopHead([d EXCEPT !.i = @ + 1, !.checks = @ + 1])
               ELSE [d EXCEPT !.pc = "idle", !.warning = TRUE, !.checks = @ + 1]
       ELSE LoopHead([d EXCEPT !.i = @ + 1])

\* doProgress(i) up to its first processEvents
doProgress(d, i) ==
    IF d.i < Len(SweepItems) THEN LoopHead([d EXCEPT !.i = i]) ELSE close(d, TRUE)

\* what the slots of the dialog leave alone
sceneVars ==
    <<worldVars, uniqueID, undostack, mode, modeParam, command, mouseOverNode, pressVars,
      selection, checked, snapSetting, call, buttons, raised, pushes, gesture>>

\* showEvent: the dialog comes on screen and emits sgnProgress(0)
showEvent ==
    /\ dialog.pc = "new"
    /\ dialog' = doProgress([dialog EXCEPT !.open = TRUE], 0)
    /\ UNCHANGED sceneVars

\* QApplication.processEvents() returns and doProgress goes on
processEventsReturns ==
    /\ dialog.pc = "events"
    /\ dialog' = LoopBody(dialog)
    /\ UNCHANGED sceneVars

\* doAbort: the abort button, which is on screen with a warning only
doAbort ==
    /\ dialog.pc = "idle" /\ dialog.open /\ dialog.warning
    /\ dialog' = close(dialog, FALSE)
    /\ UNCHANGED sceneVars

\* doIgnore, a mutation: sgnProgress(self.i) is emitted
doIgnore_SameItem ==
    /\ dialog.pc = "idle" /\ dialog.open /\ dialog.warning
    /\ dialog' = doProgress([dialog EXCEPT !.warning = FALSE], dialog.i)
    /\ UNCHANGED sceneVars

\* doIgnore: the buttons are hidden and sgnProgress(self.i + 1) is emitted
doIgnore ==
    /\ dialog.pc = "idle" /\ dialog.open /\ dialog.warning
    /\ dialog' = doProgress([dialog EXCEPT !.warning = FALSE], dialog.i + 1)
    /\ UNCHANGED sceneVars

\* doShow: the item of the warning is selected alone and the dialog is
\* closed; the item of a warning is an edge
doShow ==
    /\ dialog.pc = "idle" /\ dialog.open /\ dialog.warning
    /\ dialog.i < Len(SweepItems)
    /\ isEdge(SweepItems[dialog.i + 1])
    /\ selection' = {}
    /\ edgeObjs' = [e \in DOMAIN edgeObjs |->
                       [edgeObjs[e] EXCEPT !.selected = (e = SweepItems[dialog.i + 1][2])]]
    /\ dialog' = close(dialog, FALSE)
    /\ UNCHANGED <<nodeObjs, sceneItems, nodesById, edgesById, nodesByLabel, uniqueID,
                   undostack, mode, modeParam, command, mouseOverNode, pressVars, checked,
                   snapSetting, call, buttons, raised, pushes, gesture>>

\* QDialog.reject: the user closes the dialog from its title bar or with
\* the Escape key; the event loop delivers this while no slot is running
\* and also inside QApplication.processEvents()
reject ==
    /\ dialog.open
    /\ dialog.pc \in {"idle", "events"}
    /\ dialog' = [dialog EXCEPT !.open = FALSE, !.closed = TRUE]
    /\ UNCHANGED sceneVars

InitSweep == InitScene /\ InitSweepDoc

NextSweep ==
    \/ showEvent
    \/ processEventsReturns
    \/ doAbort
    \/ doIgnore
    \/ doShow
    \/ reject

SpecSweep == InitSweep /\ [][NextSweep]_vars

(***************************************************************************)
(* A Property Assertion node, which keeps the Input edges that end at it   *)
(* in a list of its own next to the list of all its edges.                 *)
(***************************************************************************)
\* PropertyAssertionNode.__init__: a node with the DistinctList inputs
PropertyAssertionNode(id, pos) ==
    [id |-> id, type |-> "PropertyAssertionNode", pos |-> pos, label |-> "",
     edges |-> <<>>, anchors |-> EmptyDict, flags |-> {}, inputs |-> <<>>]

\* the handle of the Property Assertion node of the document
AssertionNode == 1

\* the nodes of the document: the Property Assertion node and an Individual
AssertionNodes ==
    <<PropertyAssertionNode(<<"n", 0>>, <<0, 0>>),
      NewNode("IndividualNode", <<"n", 1>>, <<40, 20>>)>>

\* the edges that are added to the node and removed from it: two Input
\* edges that end at it, an Input edge that starts at it, an Inclusion edge
\* that ends at it and an Input edge from the node to itself
AssertionEdges ==
    <<NewEdge("InputEdge", <<"e", 0>>, 2, AssertionNode, <<>>),
      NewEdge("InputEdge", <<"e", 1>>, 2, AssertionNode, <<>>),
      NewEdge("InputEdge", <<"e", 2>>, AssertionNode, 2, <<>>),
      NewEdge("InclusionEdge", <<"e", 3>>, 2, AssertionNode, <<>>),
      NewEdge("InputEdge", <<"e", 4>>, AssertionNode, AssertionNode, <<>>)>>

\* PropertyAssertionNode.addEdge, a mutation: the target of the edge is not
\* looked at
addEdge_AnyInput(W, n, e) ==
    LET W1 == nodeAddEdge(W, n, e)
    IN IF W.edgeObjs[e].type = "InputEdge"
       THEN [W1 EXCEPT !.nodeObjs[n].inputs = DistinctAppend(@, e)]
       ELSE W1

\* PropertyAssertionNode.addEdge
addEdge(W, n, e) ==
    LET W1 == nodeAddEdge(W, n, e)
    IN IF W.edgeObjs[e].type = "InputEdge" /\ W.edgeObjs[e].target = n
       THEN [W1 EXCEPT !.nodeObjs[n].inputs = DistinctAppend(@, e)]
       ELSE W1

\* PropertyAssertionNode.removeEdge
removeEdge(W, n, e) ==
    [nodeRemoveEdge(W, n, e) EXCEPT !.nodeObjs[n].inputs = DistinctRemove(@, e)]

\* a call of addEdge on the node with an edge of the document
addEdgeCall(e) ==
    /\ SetWorld(addEdge(World, AssertionNode, e))
    /\ UNCHANGED <<uniqueID, undostack, pushes, mode, modeParam, checked, command,
                   mouseOverNode, pressVars, selection, snapSetting, dialog, call, buttons,
                   raised, gesture>>

\* a call of removeEdge on the node with an edge of the document, be it
\* among the edges of the node or not
removeEdgeCall(e) ==
    /\ SetWorld(removeEdge(World, AssertionNode, e))
    /\ UNCHANGED <<uniqueID, undostack, pushes, mode, modeParam, checked, command,
                   mouseOverNode, pressVars, selection, snapSetting, dialog, call, buttons,
                   raised, gesture>>

InitAssertionDoc ==
    LET W0 == [nodeObjs |-> AssertionNodes, edgeObjs |-> AssertionEdges, sceneItems |-> {},
               nodesById |-> EmptyDict, edgesById |-> EmptyDict,
               nodesByLabel |-> EmptyDict]
        W == addItem(addItem(W0, NodeRef(1)), NodeRef(2))
    IN /\ nodeObjs = W.nodeObjs
       /\ edgeObjs = W.edgeObjs
       /\ sceneItems = W.sceneItems
       /\ nodesById = W.nodesById
       /\ edgesById = W.edgesById
       /\ nodesByLabel = W.nodesByLabel
       /\ uniqueID = [prefix \in {"n", "e"} |->
                         IF prefix = "n" THEN Len(AssertionNodes) ELSE Len(AssertionEdges)]

InitAssertion == InitScene /\ InitAssertionDoc

NextAssertion ==
    \/ \E e \in 1..Len(edgeObjs) : addEdgeCall(e)
    \/ \E e \in 1..Len(edgeObjs) : removeEdgeCall(e)

SpecAssertion == InitAssertion /\ [][NextAssertion]_vars

(***************************************************************************)
(* The sweep when the user answers every warning with the ignore button    *)
(* and does nothing else, on documents of any size, the empty one          *)
(* included.                                                               *)
(***************************************************************************)
\* the validated documents: no item at all, the two nodes alone, or the two
\* nodes joined by up to SweepEdgeCount edges of any of the classes
InitIgnoreDoc ==
    \E count \in 0..SweepEdgeCount, empty \in BOOLEAN :
    \E types \in [1..count -> SweepEdgeTypes] :
        LET edges == [e \in 1..count |-> NewEdge(types[e], <<"e", e - 1>>, 1, 2, <<>>)]
            nodes == IF empty THEN <<>>
                     ELSE [n \in 1..Len(LoadedNodes) |->
                              [LoadedNodes[n] EXCEPT !.edges = [e \in 1..count |-> e]]]
            W0 == [nodeObjs |-> nodes, edgeObjs |-> edges, sceneItems |-> {},
                   nodesById |-> EmptyDict, edgesById |-> EmptyDict,
                   nodesByLabel |-> EmptyDict]
            W == AddAll(W0, [i \in 1..(Len(nodes) + count) |->
                                IF i <= Len(nodes) THEN NodeRef(i) ELSE EdgeRef(i - Len(nodes))])
        IN /\ empty => count = 0
           /\ nodeObjs = W.nodeObjs
           /\ edgeObjs = W.edgeObjs
           /\ sceneItems = W.sceneItems
           /\ nodesById = W.nodesById
           /\ edgesById = W.edgesById
           /\ nodesByLabel = W.nodesByLabel
           /\ uniqueID = [prefix \in {"n", "e"} |-> IF prefix = "n" THEN Len(nodes) ELSE count]

InitIgnore == InitScene /\ InitIgnoreDoc

NextIgnore ==
    \/ showEvent
    \/ processEventsReturns
    \/ doIgnore

\* the dialog is shown by exec_, processEvents returns when the pending
\* events are delivered, and the user presses the button
SpecIgnore == InitIgnore /\ [][NextIgnore]_vars /\ WF_vars(NextIgnore)

(***************************************************************************)
(* The undo stack filled up to its limit: label edits of one node of the   *)
(* loaded document, undo and redo.                                         *)
(***************************************************************************)
InitStack == InitScene /\ InitLoaded

NextStack ==
    \/ \E text \in EditTexts : EditLabelUpTo(1, text, MaxStackEdits)
    \/ Undo
    \/ Redo

SpecStack == InitStack /\ [][NextStack]_vars

(***************************************************************************)
(* Properties of the identifiers and of the label index.                   *)
(***************************************************************************)
\* the handles of the nodes and edges that the id indices hold
IndexedNodes == Values(nodesById)

IndexedEdges == Values(edgesById)

\* C2: whatever nodes and edges are added, removed, composed, undone and
\* redone, no two distinct live entities share an id: the entities of the
\* scene have pairwise distinct ids, and each is the one that its index
\* holds under its id.
C2_LiveIdsUnique ==
    /\ \A x, y \in sceneItems : x # y => ItemId(World, x) # ItemId(World, y)
    /\ \A n \in 1..Len(nodeObjs) :
          NodeRef(n) \in sceneItems
          => (nodeObjs[n].id \in DOMAIN nodesById /\ nodesById[nodeObjs[n].id] = n)
    /\ \A e \in 1..Len(edgeObjs) :
          EdgeRef(e) \in sceneItems
          => (edgeObjs[e].id \in DOMAIN edgesById /\ edgesById[edgeObjs[e].id] = e)
    /\ \A m, n \in IndexedNodes : m # n => nodeObjs[m].id # nodeObjs[n].id
    /\ \A d, e \in IndexedEdges : d # e => edgeObjs[d].id # edgeObjs[e].id

\* a composed axiom lives next to a node inserted with the pointer: three
\* entities and the command of the composition applied
C2_Witness ==
    /\ Cardinality(sceneItems) >= 3
    /\ Cardinality(IndexedNodes) >= 2
    /\ Cardinality(IndexedEdges) >= 1
    /\ \E i \in 1..undostack.index : undostack.cmds[i].kind = "Compose"
    /\ \E i \in 1..undostack.index : undostack.cmds[i].kind = "NodeAdd"

PrimaryPress(p, ctrl) == MousePressEvent(LeftButton, p, ctrl)

PrimaryRelease(p, ctrl) == MouseReleaseEvent(LeftButton, p, ctrl)

\* the nodes other than the source of the pending edge that lie at p
TargetsAt(p) == NodesAt(World, p) \ {edgeObjs[command].source}

\* C1: every edge in edgesById has a source and a target, and the pending
\* edge (the one whose target is still absent) is never in edgesById.
C1_IndexedEdgesAreComplete ==
    \A id \in DOMAIN edgesById :
        /\ edgeObjs[edgesById[id]].source # None
        /\ edgeObjs[edgesById[id]].target # None
        /\ edgesById[id] # command

(***************************************************************************)
(* Properties of edge insertion.                                           *)
(***************************************************************************)
\* what a committing release leaves, the command stack apart: the target is
\* a node at p other than the source, the edge is registered on both end
\* points and indexed under its own id, and no pending edge remains
EdgeCommitted(p) ==
    LET e == command
        S == edgeObjs[e].source
        T == edgeObjs'[e].target
    IN /\ T \in TargetsAt(p)
       /\ edgeObjs'[e].source = S
       /\ InSeq(nodeObjs'[S].edges, e)
       /\ InSeq(nodeObjs'[T].edges, e)
       /\ edgeObjs[e].id \in DOMAIN edgesById'
       /\ edgesById'[edgeObjs[e].id] = e
       /\ command' = None

\* exactly one command of the given kind is pushed on top of the applied
\* commands
OnePushed(kind) ==
    /\ pushes' = pushes + 1
    /\ undostack'.index = undostack.index + 1
    /\ Count(undostack') = undostack'.index
    /\ SubSeq(undostack'.cmds, 1, undostack.index) = SubSeq(undostack.cmds, 1, undostack.index)
    /\ undostack'.cmds[undostack'.index].kind = kind

C5_ReleaseOffNodeDiscards ==
    [][\A p \in EventPoints, ctrl \in BOOLEAN :
          (/\ mode = "EdgeInsert"
           /\ command # None
           /\ TargetsAt(p) = {}
           /\ gesture.ph = "pressed"
           /\ EdgeRef(command) \notin gesture.W0.sceneItems
           /\ PrimaryRelease(p, ctrl))
          => (/\ EdgeRef(command) \notin sceneItems'
              /\ edgesById' = gesture.W0.edgesById
              /\ \A n \in 1..Len(gesture.W0.nodeObjs) :
                    nodeObjs'[n].edges = gesture.W0.nodeObjs[n].edges
              /\ Len(nodeObjs') = Len(gesture.W0.nodeObjs)
              /\ Count(undostack') = Count(gesture.stack0)
              /\ undostack' = gesture.stack0
              /\ pushes' = gesture.pushes0
              /\ command' = None)]_vars

\* a pending edge has been discarded: an edge object that was never
\* committed is neither pending nor in the scene nor indexed
C5_Witness ==
    \E e \in 1..Len(edgeObjs) :
        /\ edgeObjs[e].target = None
        /\ command = None
        /\ EdgeRef(e) \notin sceneItems
        /\ edgeObjs[e].id \notin DOMAIN edgesById
        /\ buttons = {}

NodeInserted(p) ==
    LET h == Len(nodeObjs) + 1
        n == nodeObjs'[h]
    IN /\ Len(nodeObjs') = Len(nodeObjs) + 1
       /\ \A k \in 1..Len(nodeObjs) : nodeObjs'[k] = nodeObjs[k]
       /\ sceneItems' = sceneItems \cup {NodeRef(h)}
       /\ n.type = modeParam
       /\ IF snapSetting
          THEN \A i \in 1..2 : /\ n.pos[i] % GridSize = 0
                               /\ 2 * Abs(n.pos[i] - p[i]) <= GridSize
          ELSE n.pos = p
       /\ \A k \in 1..Len(nodeObjs) : nodeObjs[k].id # n.id
       /\ n.id \notin DOMAIN nodesById
       /\ DOMAIN nodesById' = DOMAIN nodesById \cup {n.id}
       /\ nodesById'[n.id] = h
       /\ \A id \in DOMAIN nodesById : nodesById'[id] = nodesById[id]
       /\ edgesById' = edgesById
       /\ h \in selection'

EdgesWithin(nodes) ==
    {e \in 1..Len(edgeObjs) :
        /\ EdgeRef(e) \in sceneItems
        /\ edgeObjs[e].source \in nodes
        /\ edgeObjs[e].target \in nodes}

\* C9: a drag (a press that captures a node, one or more moves, the primary
\* release) of K >= 1 selected nodes and of the M >= 0 edges between them
\* pushes exactly one command, a move of those nodes and edges, whatever K,
\* M and the number of moves, and the mode is Idle after the release.
C9_DragPushesOneCommand ==
    [][\A p \in EventPoints, ctrl \in BOOLEAN :
          (/\ mode = "NodeMove"
           /\ gesture.ph = "pressed"
           /\ gesture.moved
           /\ PrimaryRelease(p, ctrl))
          => (/\ pushes' = gesture.pushes0 + 1
              /\ undostack'.index = gesture.stack0.index + 1
              /\ Count(undostack') = undostack'.index
              /\ SubSeq(undostack'.cmds, 1, gesture.stack0.index)
                    = SubSeq(gesture.stack0.cmds, 1, gesture.stack0.index)
              /\ LET c == undostack'.cmds[undostack'.index]
                 IN /\ c.kind = "NodeMove"
                    /\ DOMAIN c.pos1.nodes # {}
                    /\ DOMAIN c.pos1.nodes = selection
                    /\ DOMAIN c.pos2.nodes = selection
                    /\ DOMAIN c.pos1.edges = EdgesWithin(selection)
                    /\ DOMAIN c.pos2.edges = EdgesWithin(selection)
              /\ mode' = "Idle")]_vars

\* a drag of two nodes and of the edge between them has ended: one move
\* command more than at the press, and the nodes are not where they were
C9_Witness ==
    /\ gesture.ph = "released"
    /\ gesture.moved
    /\ mode = "Idle"
    /\ pushes = gesture.pushes0 + 1
    /\ undostack.index > 0
    /\ LET c == undostack.cmds[undostack.index]
       IN /\ c.kind = "NodeMove"
          /\ Cardinality(DOMAIN c.pos1.nodes) = 2
          /\ Cardinality(DOMAIN c.pos1.edges) = 1
          /\ \E n \in DOMAIN c.pos1.nodes : c.pos1.nodes[n].pos # c.pos2.nodes[n].pos

\* C10: a primary press on a node of the selection followed by the primary
\* release with no move in between never enters NodeMove and pushes no
\* command: the mode is Idle before and after the release, and the stack and
\* the position of every node are as they were at the press.
C10_ClickDoesNotMove ==
    [][\A p \in EventPoints, ctrl \in BOOLEAN :
          (/\ gesture.ph = "pressed"
           /\ ~gesture.moved
           /\ gesture.mode0 = "Idle"
           /\ gesture.node # None
           /\ PrimaryRelease(p, ctrl))
          => (/\ gesture.node \in selection
              /\ mode = "Idle"
              /\ mode' = "Idle"
              /\ undostack' = gesture.stack0
              /\ pushes' = gesture.pushes0
              /\ Len(nodeObjs') = Len(gesture.W0.nodeObjs)
              /\ \A n \in 1..Len(nodeObjs') :
                    nodeObjs'[n].pos = gesture.W0.nodeObjs[n].pos)]_vars

\* a click on a node of the selection has ended: the press captured the
\* node, no move came, and the button is released
C10_Witness ==
    /\ gesture.ph = "released"
    /\ ~gesture.moved
    /\ gesture.mode0 = "Idle"
    /\ gesture.node # None
    /\ gesture.node \in selection
    /\ mode = "Idle"
    /\ buttons = {}

(***************************************************************************)
(* Properties of the move events.                                          *)
(***************************************************************************)
\* the point snapped to the grid when the setting is on
Snapped(point) ==
    IF snapSetting
    THEN <<snapF(point[1], GridSize), snapF(point[2], GridSize)>>
    ELSE point

\* C11: after each move event that leaves the scene in NodeMove, with
\* delta = snap(grabber position at press + event position - press position)
\* - grabber position at press, every node captured at the press is at its
\* press-time position + delta, every anchor of a captured node is at its
\* press-time value + delta, and every breakpoint of every captured edge is
\* at its press-time value + delta, the captured nodes being the nodes
\* selected and the captured edges the edges with both end points selected.
C11_MoveShiftsCaptured ==
    [][\A p \in EventPoints :
          (/\ LeftButton \in buttons
           /\ mode \in {"Idle", "NodeMove"}
           /\ mousePressNode # None
           /\ mousePressData.tag = "data"
           /\ MouseMoveEvent(p))
          => LET delta == PSub(Snapped(PAdd(mousePressNodePos, PSub(p, mousePressPos))),
                               mousePressNodePos)
             IN /\ mode' = "NodeMove"
                /\ DOMAIN mousePressData.nodes = selection
                /\ DOMAIN mousePressData.edges = EdgesWithin(selection)
                /\ \A n \in DOMAIN mousePressData.nodes :
                      /\ nodeObjs'[n].pos = PAdd(mousePressData.nodes[n].pos, delta)
                      /\ \A e \in DOMAIN mousePressData.nodes[n].anchors :
                            nodeObjs'[n].anchors[e]
                               = PAdd(mousePressData.nodes[n].anchors[e], delta)
                /\ \A e \in DOMAIN mousePressData.edges :
                      /\ Len(edgeObjs'[e].breakpoints) = Len(mousePressData.edges[e])
                      /\ \A i \in 1..Len(mousePressData.edges[e]) :
                            edgeObjs'[e].breakpoints[i]
                               = PAdd(mousePressData.edges[e][i], delta)]_vars

\* a move of two nodes, one with an anchor, and of the edge between them,
\* with its breakpoint, is in progress, away from where the press found them
C11_Witness ==
    /\ mode = "NodeMove"
    /\ LeftButton \in buttons
    /\ mousePressData.tag = "data"
    /\ Cardinality(DOMAIN mousePressData.nodes) = 2
    /\ DOMAIN mousePressData.edges = {1}
    /\ \E n \in DOMAIN mousePressData.nodes :
          /\ nodeObjs[n].pos # mousePressData.nodes[n].pos
          /\ \E e \in DOMAIN mousePressData.nodes[n].anchors :
                nodeObjs[n].anchors[e] # mousePressData.nodes[n].anchors[e]
    /\ edgeObjs[1].breakpoints # mousePressData.edges[1]

(***************************************************************************)
(* Properties of the undo stack.                                           *)
(***************************************************************************)
\* a step that pushes a command
Pushing == pushes' = pushes + 1

\* C13: a push after one or more undos discards every undone command: after
\* the push no command is left to redo, and the stack is the commands below
\* the cursor followed by the new command.
C13_PushDiscardsRedoTail ==
    [][(undostack.index < Count(undostack) /\ Pushing)
          => (/\ undostack'.index = Count(undostack')
              /\ Count(undostack') = undostack.index + 1
              /\ SubSeq(undostack'.cmds, 1, undostack.index)
                    = SubSeq(undostack.cmds, 1, undostack.index))]_vars

\* two commands were pushed and one is on the stack, applied: the second
\* push came after the undo of the first
C13_Witness ==
    /\ pushes = 2
    /\ Count(undostack) = 1
    /\ undostack.index = 1

\* C14: the stack never holds more commands than the undo limit; a push on
\* a full stack discards the oldest command and leaves the stack full with
\* the new command on top; and the commands that remain are undone from the
\* top down, each undo giving the node the text its command replaced, which
\* is the text the command below it had set.
C14_StackKeepsWithinLimit ==
    [][/\ Count(undostack') <= UndoLimit
       /\ (Count(undostack) = UndoLimit /\ undostack.index = UndoLimit /\ Pushing)
             => (/\ Count(undostack') = UndoLimit
                 /\ undostack'.index = UndoLimit
                 /\ SubSeq(undostack'.cmds, 1, UndoLimit - 1) = Tail(undostack.cmds))
       /\ (undostack.index > 0 /\ Undo)
             => (/\ undostack'.index = undostack.index - 1
                 /\ undostack'.cmds = undostack.cmds
                 /\ LET c == undostack.cmds[undostack.index]
                    IN /\ nodeObjs[c.node].label = c.redo
                       /\ nodeObjs'[c.node].label = c.undo
                       /\ undostack.index > 1
                             => undostack.cmds[undostack.index - 1].redo = c.undo)]_vars

\* more commands were pushed than the limit allows, the stack is full, and
\* every command that remains has been undone
C14_Witness ==
    /\ pushes > UndoLimit
    /\ Count(undostack) = UndoLimit
    /\ undostack.index = 0


(***************************************************************************)
(* Properties of the axiom composers.                                      *)
(***************************************************************************)
\* a composer has been called and has returned
Returned == call.fn # "none"

\* the numbers of nodes and of edges in the set a composer returns
ReturnedSizes == <<Len(call.nodes), Len(call.edges)>>

\* C17, as stated: every axiom composer, on every admissible source, returns
\* between 0 and 2 new nodes and between 2 and 3 new edges.
C17_ZeroToTwoNodesTwoToThreeEdges ==
    Returned => ReturnedSizes[1] \in 0..2 /\ ReturnedSizes[2] \in 2..3

\* C17, amended: every axiom composer, on every admissible source, returns
\* between 1 and 3 new nodes and between 1 and 3 new edges: symmetric 1 and
\* 2, asymmetric 2 and 3, reflexive 2 and 2, irreflexive 3 and 3, transitive
\* 1 and 3; functional, inverse-functional and property-domain 1 and 1;
\* property-range 1 and 1 on a Role source, 2 and 2 on an Attribute source.
\* The items are new: none of them is in the scene.
C17_ComposerResultSizes ==
    Returned =>
        /\ ReturnedSizes =
              CASE call.fn = "symmetric" -> <<1, 2>>
                [] call.fn = "asymmetric" -> <<2, 3>>
                [] call.fn = "reflexive" -> <<2, 2>>
                [] call.fn = "irreflexive" -> <<3, 3>>
                [] call.fn = "transitive" -> <<1, 3>>
                [] call.fn \in {"functional", "inverseFunctional", "propertyDomain"} -> <<1, 1>>
                [] call.fn = "propertyRange" ->
                      IF nodeObjs[call.source].type = "AttributeNode"
                      THEN <<2, 2>> ELSE <<1, 1>>
        /\ ReturnedSizes[1] \in 1..3 /\ ReturnedSizes[2] \in 1..3
        /\ \A i \in 1..Len(call.nodes) : NodeRef(call.nodes[i]) \notin sceneItems
        /\ \A i \in 1..Len(call.edges) : EdgeRef(call.edges[i]) \notin sceneItems
        /\ \A i, j \in 1..Len(call.nodes) : i # j => call.nodes[i] # call.nodes[j]
        /\ \A i, j \in 1..Len(call.edges) : i # j => call.edges[i] # call.edges[j]

\* the irreflexive composer has returned three nodes and three edges
C17_Witness == call.fn = "irreflexive" /\ ReturnedSizes = <<3, 3>>


\* a step that is a call of a composer
Calling == call'.n = call.n + 1

\* C18: a call of an axiom composer leaves nodesById, edgesById,
\* nodesByLabel, the undo stack, the mode and the source's position, flags
\* and edges unchanged; the objects it constructs are returned and are not in
\* the scene nor in the indices.
C18_ComposerLeavesSceneAlone ==
    [][Calling =>
          /\ nodesById' = nodesById
          /\ edgesById' = edgesById
          /\ nodesByLabel' = nodesByLabel
          /\ undostack' = undostack
          /\ mode' = mode
          /\ sceneItems' = sceneItems
          /\ nodeObjs'[call'.source].pos = nodeObjs[call'.source].pos
          /\ nodeObjs'[call'.source].flags = nodeObjs[call'.source].flags
          /\ nodeObjs'[call'.source].edges = nodeObjs[call'.source].edges
          /\ SubSeq(nodeObjs', 1, Len(nodeObjs)) = nodeObjs
          /\ SubSeq(edgeObjs', 1, Len(edgeObjs)) = edgeObjs
          /\ Len(call'.nodes) + Len(call'.edges) > 0
          /\ \A i \in 1..Len(call'.nodes) :
                /\ call'.nodes[i] \in (Len(nodeObjs) + 1)..Len(nodeObjs')
                /\ NodeRef(call'.nodes[i]) \notin sceneItems'
                /\ \A id \in DOMAIN nodesById' : nodesById'[id] # call'.nodes[i]
          /\ \A i \in 1..Len(call'.edges) :
                /\ call'.edges[i] \in (Len(edgeObjs) + 1)..Len(edgeObjs')
                /\ EdgeRef(call'.edges[i]) \notin sceneItems'
                /\ \A id \in DOMAIN edgesById' : edgesById'[id] # call'.edges[i]
    ]_vars

\* the asymmetric composer has returned two nodes and three edges, and the
\* scene still holds the two nodes of the document and no edge
C18_Witness ==
    /\ call.fn = "asymmetric"
    /\ Len(nodeObjs) = Len(ComposerNodes) + 2
    /\ Len(edgeObjs) = 3
    /\ sceneItems = {NodeRef(1), NodeRef(2)}
    /\ DOMAIN edgesById = {}


Sign(x) == IF x > 0 THEN 1 ELSE IF x < 0 THEN 0 - 1 ELSE 0

\* right, left, above, below, right-above, left-above, right-below,
\* left-below, as signs of the two coordinates (y grows downwards)
CandidateOrder ==
    << <<1, 0>>, <<0 - 1, 0>>, <<0, 0 - 1>>, <<0, 1>>,
       <<1, 0 - 1>>, <<0 - 1, 0 - 1>>, <<1, 1>>, <<0 - 1, 1>> >>

\* the counts the probes of the last call returned, by candidate
CallCounts == FirstCounts(World, call.source, call.occ)

\* the candidate offsets of the source of the last call
CallOffsets == SourceOffsets(nodeObjs[call.source].type)

\* C19: a single-node composer (functional, inverse-functional,
\* property-domain) places the new node at the source position plus the
\* candidate with the least probe count, the earliest such candidate in the
\* order right, left, above, below, right-above, left-above, right-below,
\* left-below.
C19_LeastOccupiedEarliest ==
    (Returned /\ call.fn \in {"functional", "inverseFunctional", "propertyDomain"}) =>
        /\ Len(CallOffsets) = 8
        /\ \A i \in 1..8 :
              <<Sign(CallOffsets[i][1]), Sign(CallOffsets[i][2])>> = CandidateOrder[i]
        /\ \E i \in 1..8 :
              /\ nodeObjs[call.nodes[1]].pos = PAdd(nodeObjs[call.source].pos, CallOffsets[i])
              /\ \A k \in 1..8 : CallCounts[i] <= CallCounts[k]
              /\ \A k \in 1..(i - 1) : CallCounts[k] > CallCounts[i]

\* right and left are occupied, above and below tie at nothing: the node of
\* the functional axiom is put above the source
C19_Witness ==
    /\ call.fn = "functional"
    /\ CallCounts[1] = 2
    /\ CallCounts[2] = 1
    /\ CallCounts[3] = 0
    /\ CallCounts[4] = 0
    /\ nodeObjs[call.nodes[1]].pos = PAdd(nodeObjs[call.source].pos, CallOffsets[3])


\* the counts the probes of the second node returned, by pair of candidates
CallSecondCounts == SecondCounts(World, call.source, call.occ)

\* the sum of the two probe counts of a pair of candidates
CallSum(i, j) == CallCounts[i] + CallSecondCounts[i][j]

\* the nodes of the last call are at the places of the pair (i, j)
PlacedAt(i, j) ==
    /\ nodeObjs[call.nodes[1]].pos = PAdd(nodeObjs[call.source].pos, CallOffsets[i])
    /\ nodeObjs[call.nodes[2]].pos =
          PAdd(PAdd(nodeObjs[call.source].pos, CallOffsets[i]),
               SecondOffsets("RangeRestrictionNode")[j])

\* C20: the property-range composer on an Attribute source places the
\* RangeRestriction node and the ValueDomain node at the pair of the 8 x 4
\* candidates with the least sum of the two probe counts, the first such
\* pair in product order (the first candidate varying slowest); the
\* ValueDomain node is at source position + first offset + second offset.
C20_LeastSumFirstPair ==
    (Returned /\ call.fn = "propertyRange"
        /\ nodeObjs[call.source].type = "AttributeNode") =>
        /\ nodeObjs[call.nodes[1]].type = "RangeRestrictionNode"
        /\ nodeObjs[call.nodes[2]].type = "ValueDomainNode"
        /\ Len(SecondOffsets("RangeRestrictionNode")) = 4
        /\ \E i \in 1..8, j \in 1..4 :
              /\ PlacedAt(i, j)
              /\ \A k \in 1..8, l \in 1..4 :
                    /\ CallSum(i, j) <= CallSum(k, l)
                    /\ (k < i \/ (k = i /\ l < j)) => CallSum(k, l) > CallSum(i, j)

\* every first place is free, the first place of the second node beside the
\* first of the first is occupied: the pair (1, 2) is taken
C20_Witness ==
    /\ call.fn = "propertyRange"
    /\ nodeObjs[call.source].type = "AttributeNode"
    /\ \A k \in 1..8 : CallCounts[k] = 0
    /\ CallSecondCounts[1][1] > 0
    /\ CallSecondCounts[1][2] = 0
    /\ PlacedAt(1, 2)


(***************************************************************************)
(* Properties of the compose-axiom actions.                                *)
(***************************************************************************)
\* a step that composes an axiom, and one that removes a composed axiom
Composing == Pushing /\ gesture'.ph = "composed"

Decomposing == Pushing /\ gesture'.ph = "decomposed"

\* the items of a command, as items of the scene
CommandItems(c) ==
    {NodeRef(c.nodes[i]) : i \in 1..Len(c.nodes)} \cup {EdgeRef(c.edges[i]) : i \in 1..Len(c.edges)}

\* the command on top of the applied commands once the step is taken
Pushed == undostack'.cmds[undostack'.index]

\* the numbers of nodes and edges of the subgraph of a role axiom
AxiomSizes(axiom) ==
    CASE axiom = "symmetric" -> <<1, 2>>
      [] axiom = "asymmetric" -> <<2, 3>>
      [] axiom = "reflexive" -> <<2, 2>>
      [] axiom = "irreflexive" -> <<3, 3>>
      [] axiom = "transitive" -> <<1, 3>>

\* the nodes other than the source and the edges that existed are unchanged,
\* and so is the source but for its flags and its edges
OthersUnchanged(source) ==
    /\ \A n \in 1..Len(nodeObjs) :
          IF n = source
          THEN [nodeObjs'[n] EXCEPT !.flags = {}, !.edges = <<>>]
                  = [nodeObjs[n] EXCEPT !.flags = {}, !.edges = <<>>]
          ELSE nodeObjs'[n] = nodeObjs[n]
    /\ \A e \in 1..Len(edgeObjs) : edgeObjs'[e] = edgeObjs[e]

DecomposingComposed ==
    /\ Decomposing
    /\ gesture'.prev.ph = "composed"
    /\ gesture'.prev.axiom = gesture'.axiom
    /\ gesture'.prev.source = gesture'.source

\* the nodes and the edges among a set of items
NodesOf(items) == {it \in items : isNode(it)}

EdgesOf(items) == {it \in items : ~isNode(it)}

\* C16: for each of the five role axioms, triggering the action again right
\* after the composition removes exactly the items the composition added,
\* brings the numbers of nodes and of edges, the indices and the source back
\* to what they were before the composition, clears the flag, and is a
\* second command on top of the composing one: two commands when the stack
\* was empty before the composition.
C16_DecomposeUndoesCompose ==
    [][DecomposingComposed =>
          /\ Pushed.kind = "Decompose"
          /\ undostack.cmds[undostack.index].kind = "Compose"
          /\ CommandItems(Pushed) = CommandItems(undostack.cmds[undostack.index])
          /\ sceneItems \ sceneItems' = CommandItems(Pushed)
          /\ sceneItems' = gesture'.prev.W0.sceneItems
          /\ Cardinality(NodesOf(sceneItems')) = Cardinality(NodesOf(gesture'.prev.W0.sceneItems))
          /\ Cardinality(EdgesOf(sceneItems')) = Cardinality(EdgesOf(gesture'.prev.W0.sceneItems))
          /\ Cardinality(NodesOf(sceneItems)) =
                Cardinality(NodesOf(sceneItems')) + AxiomSizes(gesture'.axiom)[1]
          /\ Cardinality(EdgesOf(sceneItems)) =
                Cardinality(EdgesOf(sceneItems')) + AxiomSizes(gesture'.axiom)[2]
          /\ nodesById' = gesture'.prev.W0.nodesById
          /\ edgesById' = gesture'.prev.W0.edgesById
          /\ nodesByLabel' = gesture'.prev.W0.nodesByLabel
          /\ gesture'.axiom \in nodeObjs[gesture'.source].flags
          /\ gesture'.axiom \notin nodeObjs'[gesture'.source].flags
          /\ \A n \in 1..Len(gesture'.prev.W0.nodeObjs) :
                nodeObjs'[n] = gesture'.prev.W0.nodeObjs[n]
          /\ undostack'.index = gesture'.prev.stack0.index + 2
          /\ Count(undostack') = gesture'.prev.stack0.index + 2
          /\ undostack'.cmds[undostack'.index - 1] = undostack.cmds[undostack.index]
          /\ Pushed # undostack.cmds[undostack.index]
          /\ Count(gesture'.prev.stack0) = 0 => Count(undostack') = 2
    ]_vars

\* the transitive axiom was composed on the Role node of the new document
\* and the action was triggered again: the scene is as before, the flag is
\* off and the stack holds two commands
C16_Witness ==
    /\ gesture.ph = "decomposed"
    /\ gesture.axiom = "transitive"
    /\ gesture.prev.ph = "composed"
    /\ gesture.prev.axiom = "transitive"
    /\ Count(gesture.prev.stack0) = 0
    /\ sceneItems = gesture.prev.W0.sceneItems
    /\ "transitive" \notin nodeObjs[gesture.source].flags
    /\ Count(undostack) = 2


(***************************************************************************)
(* Undo and redo of every class of command.                                *)
(***************************************************************************)
\* the collections once the step is taken
WorldAfter ==
    [nodeObjs |-> nodeObjs', edgeObjs |-> edgeObjs', sceneItems |-> sceneItems',
     nodesById |-> nodesById', edgesById |-> edgesById', nodesByLabel |-> nodesByLabel']

\* the collections before the operation that the pushed command records: for
\* the commands pushed at the release of the pointer (edge insertion, move)
\* those at the press, for the others those before the step
WorldBefore ==
    IF Pushed.kind \in {"EdgeAdd", "NodeMove"} THEN gesture.W0 ELSE World

\* the members of each bucket of a label index
Members(index) == [text \in DOMAIN index |-> {index[text][i] : i \in 1..Len(index[text])}]

\* the first collections agree with the second on the items of the scene,
\* the id indices, the membership of the label index and, for every object
\* of the second, on position, anchors, flags, label and breakpoints
Restored(W, W0) ==
    /\ W.sceneItems = W0.sceneItems
    /\ W.nodesById = W0.nodesById
    /\ W.edgesById = W0.edgesById
    /\ Members(W.nodesByLabel) = Members(W0.nodesByLabel)
    /\ \A n \in 1..Len(W0.nodeObjs) :
          /\ W.nodeObjs[n].pos = W0.nodeObjs[n].pos
          /\ W.nodeObjs[n].anchors = W0.nodeObjs[n].anchors
          /\ W.nodeObjs[n].flags = W0.nodeObjs[n].flags
          /\ W.nodeObjs[n].label = W0.nodeObjs[n].label
    /\ \A e \in 1..Len(W0.edgeObjs) :
          W.edgeObjs[e].breakpoints = W0.edgeObjs[e].breakpoints

Renaming(sender) ==
    /\ Pushing
    /\ gesture'.ph = "edited"
    /\ gesture'.sender = sender

\* the members of the bucket of a text, none when there is no bucket
BucketOf(index, text) ==
    IF text \in DOMAIN index THEN {index[text][i] : i \in 1..Len(index[text])} ELSE {}

C22_RefactorRenamesAll ==
    [][/\ Renaming("nameField") =>
             LET n == gesture'.node
                 A == nodeObjs[n].label
                 B == gesture'.data
                 same == predicates(World, nodeObjs[n].type, A)
                 Wu == CmdUndo(WorldAfter, Pushed)
             IN /\ A # B
                /\ n \in same
                /\ \A m \in 1..Len(nodeObjs) :
                      nodeObjs'[m].label = IF m \in same THEN B ELSE nodeObjs[m].label
                /\ same \subseteq BucketOf(nodesByLabel', B)
                /\ BucketOf(nodesByLabel', A) = BucketOf(nodesByLabel, A) \ same
                /\ Pushed.kind = "Refactor"
                /\ Len(Pushed.commands) = Cardinality(same)
                /\ undostack'.index = undostack.index + 1
                /\ pushes' = pushes + 1
                /\ SubSeq(undostack'.cmds, 1, undostack.index)
                      = SubSeq(undostack.cmds, 1, undostack.index)
                /\ \A m \in 1..Len(nodeObjs) : Wu.nodeObjs[m].label = nodeObjs[m].label
                /\ Members(Wu.nodesByLabel) = Members(nodesByLabel)
       /\ (gesture'.ph = "edited" /\ gesture'.data = nodeObjs[gesture'.node].label) =>
             /\ UNCHANGED <<worldVars, undostack, pushes>>
    ]_vars

\* the two concepts that shared a text have been renamed by one command of
\* the name field; the role, which had been given the same text through the
\* label field, keeps it
C22_Witness ==
    /\ gesture.ph = "edited"
    /\ gesture.sender = "nameField"
    /\ pushes = gesture.pushes0 + 1
    /\ Cardinality(predicates(gesture.W0, "ConceptNode", "concept")) = 2
    /\ gesture.W0.nodeObjs[gesture.node].label = "concept"
    /\ gesture.W0.nodeObjs[3].label = "concept"
    /\ nodeObjs[1].label = "label1"
    /\ nodeObjs[2].label = "label1"
    /\ nodeObjs[3].label = "concept"
    /\ undostack.cmds[undostack.index].kind = "Refactor"
    /\ Len(undostack.cmds[undostack.index].commands) = 2

\* the value left in a field is the text the node has: no command
C22_NothingPushed ==
    /\ gesture.ph = "edited"
    /\ gesture.data = gesture.W0.nodeObjs[gesture.node].label
    /\ pushes = gesture.pushes0


\* a step of flagChanged
FlagChanging == Pushing /\ gesture'.ph = "flag"

\* C23: each click on the checkbox of an axiom property of a node pushes one
\* command that sets that flag of that node to the value of the checkbox and
\* leaves its other flags, and everything else, unchanged; undoing the
\* command gives the flag the value it had.
C23_ToggleSetsOneFlag ==
    [][FlagChanging =>
          LET n == gesture'.node
              a == gesture'.attribute
              Wu == CmdUndo(WorldAfter, Pushed)
          IN /\ (a \in nodeObjs'[n].flags) <=> gesture'.checked
             /\ nodeObjs'[n].flags \ {a} = nodeObjs[n].flags \ {a}
             /\ [nodeObjs'[n] EXCEPT !.flags = {}] = [nodeObjs[n] EXCEPT !.flags = {}]
             /\ \A m \in 1..Len(nodeObjs) : m # n => nodeObjs'[m] = nodeObjs[m]
             /\ UNCHANGED <<edgeObjs, sceneItems, nodesById, edgesById, nodesByLabel>>
             /\ Pushed.kind = "NodeFlag"
             /\ Pushed.node = n
             /\ Pushed.flag = a
             /\ undostack'.index = undostack.index + 1
             /\ pushes' = pushes + 1
             /\ SubSeq(undostack'.cmds, 1, undostack.index)
                   = SubSeq(undostack.cmds, 1, undostack.index)
             /\ Wu.nodeObjs[n].flags = nodeObjs[n].flags
             /\ Wu.nodeObjs = nodeObjs
    ]_vars

\* the Role node is symmetric and its transitive checkbox has just been
\* cleared, after having been set: transitive is off, symmetric still on
C23_Witness ==
    /\ gesture.ph = "flag"
    /\ gesture.attribute = "transitive"
    /\ ~gesture.checked
    /\ gesture.W0.nodeObjs[gesture.node].flags = {"symmetric", "transitive"}
    /\ nodeObjs[gesture.node].flags = {"symmetric"}
    /\ undostack.index = 3


(***************************************************************************)
(* C24: after a file has been loaded, every id of the file has been        *)
(* observed: the counter of its prefix is past its number, so that every   *)
(* id that next returned afterwards differs from every observed id and so  *)
(* does the id that next would return now, which is the id of no item of   *)
(* the scene; observing an id a second time changes nothing, and           *)
(* observing any id never decreases a counter.                             *)
(***************************************************************************)
C24_NextAvoidsObserved ==
    gesture.ph \in {"loaded", "next"} =>
        /\ \A id \in gesture.observed : uniqueID[id[1]] > id[2]
        /\ gesture.returned \cap gesture.observed = {}
        /\ \A prefix \in {"n", "e"} :
              /\ NextId(prefix) \notin gesture.observed
              /\ NextId(prefix) \notin (DOMAIN nodesById) \cup (DOMAIN edgesById)
        /\ \A prefix \in {"n", "e"} : \A id \in FileIds(prefix) :
              /\ update(update(uniqueID, id), id) = update(uniqueID, id)
              /\ \A q \in {"n", "e"} : update(uniqueID, id)[q] >= uniqueID[q]
              /\ id \in gesture.observed => update(uniqueID, id) = uniqueID

\* a file with the ids n3, n1 (out of order) and e2 was loaded, and next
\* has since returned n4 and e3
C24_Witness ==
    /\ gesture.ph = "next"
    /\ gesture.file.nodes = << <<"n", 3>>, <<"n", 1>> >>
    /\ gesture.file.edges = << <<"e", 2>> >>
    /\ gesture.returned = {<<"n", 4>>, <<"e", 3>>}


(***************************************************************************)
(* C25: the objects are numbered in the order of their creation, n0, n1,   *)
(* ... for the nodes and e0, e1, ... for the edges; a step that creates    *)
(* nodes or edges gives the first new node the prefix n followed by the    *)
(* current node counter and the first new edge the prefix e followed by    *)
(* the current edge counter, and advances each counter by the number of    *)
(* objects created with its prefix and by nothing else, so that creating   *)
(* a node leaves the edge counter alone and conversely; every other step   *)
(* leaves the counters alone.                                              *)
(***************************************************************************)
C25_NextNumbersInSequence ==
    [][LET newNodes == Len(nodeObjs') - Len(nodeObjs)
           newEdges == Len(edgeObjs') - Len(edgeObjs)
       IN /\ newNodes >= 0 /\ newEdges >= 0
          /\ newNodes > 0 => nodeObjs'[Len(nodeObjs) + 1].id = <<"n", uniqueID["n"]>>
          /\ newEdges > 0 => edgeObjs'[Len(edgeObjs) + 1].id = <<"e", uniqueID["e"]>>
          /\ uniqueID' = [prefix \in {"n", "e"} |->
                             uniqueID[prefix] + (IF prefix = "n" THEN newNodes ELSE newEdges)]
          /\ \A h \in 1..Len(nodeObjs') : nodeObjs'[h].id = <<"n", h - 1>>
          /\ \A h \in 1..Len(edgeObjs') : edgeObjs'[h].id = <<"e", h - 1>>]_vars

\* in a new diagram two nodes were inserted, n0 and n1, and then an edge
\* was begun: it is e0, and the node counter is still 2
C25_Witness ==
    /\ Len(undostack.cmds) = 2
    /\ \A i \in 1..2 : undostack.cmds[i].kind = "NodeAdd" /\ undostack.cmds[i].node = i
    /\ Len(nodeObjs) = 2 /\ nodeObjs[1].id = <<"n", 0>> /\ nodeObjs[2].id = <<"n", 1>>
    /\ Len(edgeObjs) = 1 /\ edgeObjs[1].id = <<"e", 0>>
    /\ uniqueID["n"] = 2 /\ uniqueID["e"] = 1


(***************************************************************************)
(* C26: no handler of a pointer event raises, whatever the button, the     *)
(* mode and the order of the events; a release in EdgeInsert mode with no  *)
(* pending edge and a move with no node captured leave nodesById,          *)
(* edgesById, nodesByLabel, the undo stack and the position of every node  *)
(* unchanged.                                                              *)
(***************************************************************************)
IndicesUntouched ==
    /\ UNCHANGED <<nodesById, edgesById, nodesByLabel, undostack>>
    /\ \A h \in 1..Len(nodeObjs) : nodeObjs'[h].pos = nodeObjs[h].pos

C26_NoHandlerRaises ==
    [][/\ ~raised'
       /\ \A b \in MouseButtons, p \in EventPoints, ctrl \in BOOLEAN :
             (mode = "EdgeInsert" /\ command = None /\ MouseReleaseEvent(b, p, ctrl))
             => IndicesUntouched
       /\ \A p \in EventPoints :
             (mousePressNode = None /\ MouseMoveEvent(p)) => IndicesUntouched]_vars


\* C27: in EdgeInsert mode a primary release over a node T other than the
\* source of the pending edge, with an edge that the profile finds invalid
\* between the two, discards the pending edge as a release over empty space
\* does: the edge is not in edgesById nor in the edges of either node, and
\* no command is pushed.
C27_InvalidEdgeIsDiscarded ==
    [][\A p \in EventPoints, ctrl \in BOOLEAN :
          (/\ mode = "EdgeInsert"
           /\ command # None
           /\ TargetsAt(p) # {}
           /\ \A T \in TargetsAt(p) :
                 ~profileCheck(nodeObjs[edgeObjs[command].source].type,
                               edgeObjs[command].type, nodeObjs[T].type)
           /\ PrimaryRelease(p, ctrl))
          => (/\ edgeObjs[command].id \notin DOMAIN edgesById'
              /\ \A n \in 1..Len(nodeObjs) : ~InSeq(nodeObjs'[n].edges, command)
              /\ pushes' = pushes
              /\ undostack' = undostack)]_vars


(***************************************************************************)
(* C28: a call of addItem with an item of the document, be it in the       *)
(* scene already or not, and be its id held by another item or not, does   *)
(* not raise; afterwards the id of the item leads to the item and to       *)
(* nothing else, the other id entries are as before, the item is listed    *)
(* once in the bucket of its label when it is indexed by label, and        *)
(* calling addItem with it once more changes nothing.  When the item was   *)
(* in the scene under its own id, the call itself changes nothing.         *)
(***************************************************************************)
\* the number of places of a sequence that hold x
Occurrences(seq, x) == Cardinality({i \in 1..Len(seq) : seq[i] = x})

\* the id index an item belongs to
IdIndex(W, it) == IF isNode(it) THEN W.nodesById ELSE W.edgesById

C28_AddItemIsIdempotent ==
    [][(gesture.ph \in {"loaded", "next"} /\ Len(gesture'.added) = Len(gesture.added) + 1) =>
          LET it == gesture'.added[Len(gesture'.added)]
              id == ItemId(World, it)
          IN /\ ~raised'
             /\ DOMAIN IdIndex(World', it) = (DOMAIN IdIndex(World, it)) \cup {id}
             /\ IdIndex(World', it)[id] = it[2]
             /\ \A k \in (DOMAIN IdIndex(World, it)) \ {id} :
                   IdIndex(World', it)[k] = IdIndex(World, it)[k]
             /\ IF isNode(it) THEN edgesById' = edgesById ELSE nodesById' = nodesById
             /\ IF isNode(it)
                THEN /\ IndexedByLabel(World, it) =>
                           nodeObjs[it[2]].label \in DOMAIN nodesByLabel'
                     /\ \A index \in DOMAIN nodesByLabel' :
                           Occurrences(nodesByLabel'[index], it[2]) =
                              (IF IndexedByLabel(World, it) /\ index = nodeObjs[it[2]].label
                               THEN 1 ELSE 0)
                ELSE nodesByLabel' = nodesByLabel
             /\ addItem(World', it) = World'
             /\ (it \in sceneItems /\ id \in DOMAIN IdIndex(World, it)
                 /\ IdIndex(World, it)[id] = it[2]) => World' = World]_vars

\* the file had two nodes with the id n1; addItem was called twice more
\* with the first of them: the first call made n1 lead to it again, the
\* second changed nothing, and both nodes are listed once under their label
C28_Witness ==
    /\ gesture.ph \in {"loaded", "next"}
    /\ gesture.file.nodes = << <<"n", 1>>, <<"n", 1>> >>
    /\ gesture.added = <<NodeRef(1), NodeRef(1)>>
    /\ nodesById = (<<"n", 1>> :> 1)
    /\ nodesByLabel = ("concept" :> <<1, 2>>)


C30_NothingAfterClose ==
    [][dialog.closed => (dialog'.checks = dialog.checks /\ dialog'.popup = dialog.popup)]_vars

\* the part of C30 that holds: after the abort button the dialog stays as
\* it is
C30_AbortEndsSweep ==
    [][(dialog.closed /\ dialog.pc = "idle") => dialog' = dialog]_vars


(***************************************************************************)
(* C31: in every state in which the mode is not EdgeInsert no edge is      *)
(* pending: scene.command is None and no edge of the scene lacks its       *)
(* target.                                                                 *)
(***************************************************************************)
C31_PendingEdgeOnlyInEdgeInsert ==
    mode # "EdgeInsert" =>
        /\ command = None
        /\ \A e \in 1..Len(edgeObjs) :
              EdgeRef(e) \in sceneItems => edgeObjs[e].target # None


(***************************************************************************)
(* C32: in every state in which the mode is NodeMove the capture of the    *)
(* press is held: the grabber node, the press position, the position of    *)
(* the grabber and the snapshots of mousePressData.                        *)
(***************************************************************************)
C32_CaptureHeldInNodeMove ==
    mode = "NodeMove" =>
        /\ mousePressNode # None
        /\ mousePressPos # NoPoint
        /\ mousePressNodePos # NoPoint
        /\ mousePressData.tag = "data"
        /\ mousePressNode \in DOMAIN mousePressData.nodes


(***************************************************************************)
(* C33: a move event with a node captured, which leaves the scene in       *)
(* NodeMove, changes nothing outside the capture: every node that was not  *)
(* selected at the press stays as it is, position and anchors included,    *)
(* every edge that has not both end points among the nodes selected at the *)
(* press stays as it is, breakpoints included, no object is created, and   *)
(* the scene's items, nodesById, edgesById, nodesByLabel and the undo      *)
(* stack are unchanged; of a captured node only position and anchors       *)
(* change, of a captured edge only the breakpoints.                        *)
(***************************************************************************)
C33_MoveLeavesTheRestAlone ==
    [][\A p \in EventPoints :
          (/\ LeftButton \in buttons
           /\ mode \in {"Idle", "NodeMove"}
           /\ mousePressNode # None
           /\ mousePressData.tag = "data"
           /\ MouseMoveEvent(p))
          => LET pressed == DOMAIN mousePressData.nodes
             IN /\ mode' = "NodeMove"
                /\ Len(nodeObjs') = Len(nodeObjs) /\ Len(edgeObjs') = Len(edgeObjs)
                /\ \A n \in (1..Len(nodeObjs)) \ pressed : nodeObjs'[n] = nodeObjs[n]
                /\ \A n \in pressed :
                      nodeObjs'[n] = [nodeObjs[n] EXCEPT !.pos = nodeObjs'[n].pos,
                                                         !.anchors = nodeObjs'[n].anchors]
                /\ \A e \in 1..Len(edgeObjs) :
                      IF edgeObjs[e].source \in pressed /\ edgeObjs[e].target \in pressed
                      THEN edgeObjs'[e] =
                              [edgeObjs[e] EXCEPT !.breakpoints = edgeObjs'[e].breakpoints]
                      ELSE edgeObjs'[e] = edgeObjs[e]
                /\ UNCHANGED <<sceneItems, nodesById, edgesById, nodesByLabel, undostack,
                               pushes, pressVars, selection>>]_vars

\* one of the two nodes of the edge is dragged away from where the press
\* found it: the other node is captured no more than the edge, whose
\* breakpoint is where it was
C33_Witness ==
    /\ mode = "NodeMove"
    /\ LeftButton \in buttons
    /\ mousePressData.tag = "data"
    /\ DOMAIN mousePressData.nodes = {1}
    /\ DOMAIN mousePressData.edges = {}
    /\ nodeObjs[1].pos # mousePressData.nodes[1].pos
    /\ nodeObjs[2].pos = MoveNodes[2].pos
    /\ edgeObjs[1].breakpoints = MoveEdges[1].breakpoints
    /\ edgeObjs[1].breakpoints # <<>>


(***************************************************************************)
(* C34: no edge committed by the edge-insert gesture is a loop: an edge    *)
(* that has a target has a source other than it, and a primary release in  *)
(* EdgeInsert over the source of the pending edge, with no other node      *)
(* under the pointer, removes the pending edge from the scene and from     *)
(* edgesById, registers it on no node and pushes no command.               *)
(***************************************************************************)
C34_NoLoopByGesture ==
    /\ [](\A e \in 1..Len(edgeObjs) :
            edgeObjs[e].target # None => edgeObjs[e].source # edgeObjs[e].target)
    /\ [][\A p \in EventPoints, ctrl \in BOOLEAN :
            (/\ mode = "EdgeInsert"
             /\ command # None
             /\ NodesAt(World, p) = {edgeObjs[command].source}
             /\ PrimaryRelease(p, ctrl))
            => /\ edgeObjs'[command].target = None
               /\ EdgeRef(command) \notin sceneItems'
               /\ edgeObjs[command].id \notin DOMAIN edgesById'
               /\ \A n \in 1..Len(nodeObjs') : ~InSeq(nodeObjs'[n].edges, command)
               /\ command' = None
               /\ UNCHANGED <<undostack, pushes, nodesById, nodesByLabel>>]_vars

\* the pointer is over the source of the pending edge and over no other
\* node, and the release at that point removes the edge
C34_Witness ==
    /\ mode = "EdgeInsert"
    /\ command # None
    /\ LeftButton \in buttons
    /\ \E p \in EventPoints :
          /\ NodesAt(World, p) = {edgeObjs[command].source}
          /\ ENABLED (/\ PrimaryRelease(p, FALSE)
                      /\ EdgeRef(command) \notin sceneItems'
                      /\ command' = None)


(***************************************************************************)
(* C35: in every reachable state every node listed in a bucket of          *)
(* nodesByLabel is a value of nodesById, has an editable label, is listed  *)
(* under its current label text and occurs once in the bucket; a node      *)
(* whose label is not editable is in no bucket.                            *)
(***************************************************************************)
C35_BucketsHoldIndexedNodes ==
    \A text \in DOMAIN nodesByLabel :
        \A i \in 1..Len(nodesByLabel[text]) :
            LET n == nodesByLabel[text][i]
            IN /\ n \in IndexedNodes
               /\ HasLabel(nodeObjs[n].type)
               /\ LabelEditable(nodeObjs[n].type)
               /\ nodeObjs[n].label = text
               /\ \A j \in 1..Len(nodesByLabel[text]) :
                     nodesByLabel[text][j] = n => j = i


(***************************************************************************)
(* C36: removeItem(node) removes only that node: afterwards the node's id  *)
(* is not in nodesById and the node is in no bucket of nodesByLabel, while *)
(* edgesById, the edges at the node included, the id entry and the bucket  *)
(* entries of every other node, the undo stack and the mode are unchanged; *)
(* removeItem of an item that is in neither index raises nothing and       *)
(* changes no index.                                                       *)
(***************************************************************************)
\* the node is in the bucket of the text
InBucket(n, text) == text \in DOMAIN nodesByLabel /\ InSeq(nodesByLabel[text], n)

\* the same, in the next state
InBucketNext(n, text) == text \in DOMAIN nodesByLabel' /\ InSeq(nodesByLabel'[text], n)

\* the texts of the labels of the document
LabelTexts == {nodeObjs[n].label : n \in 1..Len(nodeObjs)}

\* the item is in neither index
Unindexed(it) ==
    IF isNode(it)
    THEN it[2] \notin IndexedNodes /\ \A text \in LabelTexts : ~InBucket(it[2], text)
    ELSE it[2] \notin IndexedEdges

C36_RemoveItemRemovesOnlyThat ==
    [][\A it \in HeapItems :
          removeItemCall(it)
          => /\ raised' = raised
             /\ UNCHANGED <<undostack, mode, modeParam>>
             /\ Unindexed(it) => UNCHANGED <<nodesById, edgesById, nodesByLabel>>
             /\ (isNode(it) /\ ~Unindexed(it))
                => /\ nodeObjs[it[2]].id \notin DOMAIN nodesById'
                   /\ \A text \in LabelTexts : ~InBucketNext(it[2], text)
                   /\ edgesById' = edgesById
                   /\ \A m \in (1..Len(nodeObjs)) \ {it[2]} :
                         /\ m \in IndexedNodes <=> m \in Values(nodesById')
                         /\ \A text \in LabelTexts :
                               InBucket(m, text) <=> InBucketNext(m, text)]_vars

\* the same for the documents in which no two items share an id
C36_WithDistinctIds ==
    [][\A it \in HeapItems :
          (/\ \A x, y \in HeapItems : x # y => ItemId(World, x) # ItemId(World, y)
           /\ removeItemCall(it))
          => /\ raised' = raised
             /\ UNCHANGED <<undostack, mode, modeParam>>
             /\ Unindexed(it) => UNCHANGED <<nodesById, edgesById, nodesByLabel>>
             /\ (isNode(it) /\ ~Unindexed(it))
                => /\ nodeObjs[it[2]].id \notin DOMAIN nodesById'
                   /\ \A text \in LabelTexts : ~InBucketNext(it[2], text)
                   /\ edgesById' = edgesById
                   /\ \A m \in (1..Len(nodeObjs)) \ {it[2]} :
                         /\ m \in IndexedNodes <=> m \in Values(nodesById')
                         /\ \A text \in LabelTexts :
                               InBucket(m, text) <=> InBucketNext(m, text)]_vars


(***************************************************************************)
(* C37: whatever composer is called on whatever source, every edge of the  *)
(* returned set has a source and a target, both among the source node and  *)
(* the returned nodes, every returned node is an end point of a returned   *)
(* edge, and every returned node is joined to the source by returned edges.*)
(***************************************************************************)
\* the nodes and the edges a composer has returned
ReturnedNodes == {call.nodes[i] : i \in 1..Len(call.nodes)}

ReturnedEdges == {call.edges[i] : i \in 1..Len(call.edges)}

\* the nodes one returned edge away from a set of nodes, with the set
Joined(nodes) ==
    nodes \cup {n \in ReturnedNodes :
                  \E e \in ReturnedEdges :
                      \/ edgeObjs[e].source = n /\ edgeObjs[e].target \in nodes
                      \/ edgeObjs[e].target = n /\ edgeObjs[e].source \in nodes}

C37_ComposedGraphIsClosed ==
    Returned =>
        /\ \A e \in ReturnedEdges :
              /\ edgeObjs[e].source # None
              /\ edgeObjs[e].target # None
              /\ edgeObjs[e].source \in {call.source} \cup ReturnedNodes
              /\ edgeObjs[e].target \in {call.source} \cup ReturnedNodes
        /\ \A n \in ReturnedNodes :
              \E e \in ReturnedEdges : n \in {edgeObjs[e].source, edgeObjs[e].target}
        /\ ReturnedNodes \subseteq Joined(Joined(Joined({call.source})))

\* the irreflexive composer has returned: its TOP Concept is joined to the
\* source by way of the Complement and the Domain restriction only
C37_Witness ==
    /\ call.fn = "irreflexive"
    /\ Cardinality(ReturnedNodes) = 3
    /\ ~(ReturnedNodes \subseteq Joined(Joined({call.source})))
    /\ \E e \in ReturnedEdges :
          edgeObjs[e].source = call.nodes[3] /\ edgeObjs[e].target = call.nodes[2]


IsInput(e) == edgeObjs[e].type = "InputEdge" /\ edgeObjs[e].target = AssertionNode

C40_InputsAreTheInputEdges ==
    /\ [](LET node == nodeObjs[AssertionNode]
          IN /\ node.inputs = SelectSeq(node.edges, IsInput)
             /\ \A i, j \in 1..Len(node.inputs) : node.inputs[i] = node.inputs[j] => i = j
             /\ \A i, j \in 1..Len(node.edges) : node.edges[i] = node.edges[j] => i = j)
    /\ [][\A e \in 1..Len(edgeObjs) :
            (InSeq(nodeObjs[AssertionNode].edges, e) /\ removeEdgeCall(e))
            => /\ raised' = raised
               /\ ~raised'
               /\ ~InSeq(nodeObjs'[AssertionNode].edges, e)
               /\ ~InSeq(nodeObjs'[AssertionNode].inputs, e)
               /\ \A d \in (1..Len(edgeObjs)) \ {e} :
                     /\ InSeq(nodeObjs'[AssertionNode].edges, d)
                           <=> InSeq(nodeObjs[AssertionNode].edges, d)
                     /\ InSeq(nodeObjs'[AssertionNode].inputs, d)
                           <=> InSeq(nodeObjs[AssertionNode].inputs, d)]_vars

\* the first input was removed and added again: the second input is now the
\* first, and an edge that is not an input lies between the two
C40_Witness ==
    /\ nodeObjs[AssertionNode].inputs = <<2, 1>>
    /\ nodeObjs[AssertionNode].edges = <<2, 4, 1>>

=============================================================================
